---------------------------- MODULE Spec2Model ----------------------------
(***************************************************************************)
(* A model of the node utilization plugins of the descheduler: the generic *)
(* classifier (classifier.go), one Balance pass of LowNodeUtilization and  *)
(* HighNodeUtilization with the eviction loop they share, the constructor  *)
(* of LowNodeUtilization, Normalize and Average of the classifier, and the *)
(* thresholds the NodeProcessor computes for one node.                     *)
(*                                                                         *)
(* Quantities are integers in the unit the code computes in: milli-units   *)
(* for cpu, whole units for every other resource.  A Go map is a function  *)
(* whose DOMAIN is the set of its keys; a nil pointer or nil map is the    *)
(* string "nil".  Go iterates a map in an unspecified order: wherever the  *)
(* order can change the outcome the model draws the order with \E.         *)
(***************************************************************************)
EXTENDS Integers, Sequences, FiniteSets, TLC

VARIABLES
    \* ---- classifier.Classify: one call
    cValues,       \* values Values[K, V]
    cLimits,       \* limits Limits[K, V]
    cClassifiers,  \* classifiers ...Classifier[V], each ForMap(cmp), named by cmp
    cResult,       \* what Classify returns: [isNil, buckets], the buckets a []map[K]V
    cErr,          \* the error returned, "nil" for none
    cPending,      \* keys of values the range loop has not visited yet
    cCalls,        \* per visited key, the outcomes of the classifier calls made for it
    cPc,           \* position in Classify: "idle", "start", "loop", "done"
    \* ---- Balance: one pass of a plugin
    plugin,        \* the plugin as its constructor built it
    nodes,         \* nodes []*v1.Node handed to Balance
    apiPods,       \* the pods assigned to each node, as the cluster lists them
    syncEnv,       \* what the cluster answered to Sync, NoEnv before Sync
    cancelled,     \* the context handed to Balance is cancelled
    usageClient,   \* the maps of the usage client: nodeUtilization and pods
    lowNodes,      \* lowNodes []NodeInfo
    highNodes,     \* highNodes []NodeInfo
    totalAvailableUsage,  \* the headroom of the destination nodes, per resource
    srcIdx,        \* source nodes the loop of evictPodsFromSourceNodes has taken
    inputPods,     \* evictPods: the removable pods of the source node, sorted
    podIdx,        \* evictPods: pods the loop over inputPods has taken
    skipped,       \* pods the loop of evictPods skipped because PodUsage failed
    evictCalls,    \* the calls of podEvictor.Evict made so far, in order
    lastStep,      \* the branch the last step took
    status,        \* what Balance returns: "nil" or a Status with an Err
    pc,            \* position in Balance
    \* ---- NewLowNodeUtilization: one call
    nArgs,         \* args, the LowNodeUtilizationArgs
    nHandle,       \* handle: which of its clients are not nil
    nPlugin,       \* the plugin returned, NoPlugin for nil
    nErr,          \* the error returned, "nil" for none
    nPc,           \* position in the constructor: "idle", "start", "done"
    \* ---- Normalize, then Average of what it returns
    aUsages,       \* usages Values[K, V]
    aTotals,       \* totals Values[K, V]
    aNormalized,   \* what Normalize returns
    aAverage,      \* what Average returns
    aPc,           \* "idle", "start", "normalized", "done"
    \* ---- NodeProcessor.thresholdsForNode: one call
    tArgs,         \* the processor, its usage client, the node and the average
    tThresholds,   \* the NodeThresholds returned
    tPc,           \* "idle", "start", "done"
    \* ---- Interface.NodesAverageUsage: one call
    uArgs,         \* the usage client, its nodeUtilization, and the nodes
    uAverage,      \* the api.ResourceThresholds returned
    uPc            \* "idle", "start", "done"

cvars == <<cValues, cLimits, cClassifiers, cResult, cErr, cPending, cCalls, cPc>>

pvars == <<plugin, nodes, apiPods, syncEnv, cancelled, usageClient, lowNodes, highNodes,
           totalAvailableUsage, srcIdx, inputPods, podIdx, skipped, evictCalls,
           lastStep, status, pc>>

nvars == <<nArgs, nHandle, nPlugin, nErr, nPc>>

avars == <<aUsages, aTotals, aNormalized, aAverage, aPc>>

tvars == <<tArgs, tThresholds, tPc>>

uvars == <<uArgs, uAverage, uPc>>

vars == <<cvars, pvars, nvars, avars, tvars, uvars>>

-----------------------------------------------------------------------------
(* Helpers of the model: Go maps and iteration orders.                      *)

\* The map m with m[k] = v stored.
MapPut(m, k, v) == [x \in (DOMAIN m) \cup {k} |-> IF x = k THEN v ELSE m[x]]

\* The empty map.
EmptyMap == [x \in {} |-> 0]

\* Sync was not called yet: the cluster gave no answer.
NoEnv == [called |-> FALSE]

\* No Balance pass is in progress.
PassIdle ==
    /\ plugin = "nil" /\ nodes = <<>> /\ apiPods = EmptyMap /\ syncEnv = NoEnv
    /\ cancelled = FALSE
    /\ usageClient = "nil" /\ lowNodes = <<>> /\ highNodes = <<>>
    /\ totalAvailableUsage = EmptyMap /\ srcIdx = 0 /\ inputPods = <<>>
    /\ podIdx = 0 /\ skipped = 0 /\ evictCalls = <<>> /\ lastStep = "idle"
    /\ status = [Err |-> "nil", cause |-> "nil"] /\ pc = "idle"

\* The nil plugin a constructor returns with an error.
NoPlugin == [name |-> "nil"]

\* No call of a constructor is in progress.
NewIdle ==
    /\ nArgs = NoPlugin /\ nHandle = NoPlugin /\ nPlugin = NoPlugin
    /\ nErr = "nil" /\ nPc = "idle"

\* No call of Normalize or Average is in progress.
AverageIdle ==
    /\ aUsages = EmptyMap /\ aTotals = EmptyMap /\ aNormalized = EmptyMap
    /\ aAverage = EmptyMap /\ aPc = "idle"

\* No call of thresholdsForNode is in progress.
ThresholdIdle ==
    /\ tArgs = EmptyMap /\ tThresholds = EmptyMap /\ tPc = "idle"

\* No call of NodesAverageUsage is in progress.
AverageUsageIdle ==
    /\ uArgs = EmptyMap /\ uAverage = EmptyMap /\ uPc = "idle"

\* Every order in which a range loop may visit the keys S of a map.
Orders(S) ==
    {s \in [1..Cardinality(S) -> S] : \A e \in S : \E i \in 1..Cardinality(S) : s[i] = e}

\* Every sequence over S of length 0..n.
SeqUpTo(S, n) == UNION {[1..l -> S] : l \in 0..n}

\* Every map from a subset of D to V.
PartialMaps(D, V) == UNION {[d -> V] : d \in SUBSET D}

-----------------------------------------------------------------------------
(* Bounds of the classifier inputs.                                         *)

\* Most classifiers (and limits per key) of one Classify call.
MaxClassifiers == 2

\* Keys of values and limits (node names).
Keys == {"node1", "node2"}

\* Keys of one value (resource names).
CResources == {"cpu", "memory"}

\* The limit of every resource is 1; a usage is below it, at it or above it.
CVals == {0, 1, 2}

\* The values: maps over no resource, over cpu, or over cpu and memory.
CUsageMaps == UNION {[d -> CVals] : d \in {{}, {"cpu"}, {"cpu", "memory"}}}

\* The limits: one for every resource, or one that lacks memory.
CLimitMaps == {[r \in CResources |-> 1], [r \in {"cpu"} |-> 1]}

\* The comparers handed to ForMap in the tests: usage.Cmp(limit) matches a
\* usage below the limit, limit.Cmp(usage) a usage above it.
Comparers == {"usage.Cmp(limit)", "limit.Cmp(usage)"}

-----------------------------------------------------------------------------
(* classifier.go                                                            *)

ErrLimitsMismatch == "amount of limits must match the amount of classifiers"

ErrLimitNotFound == "limit not found"

\* resource.Quantity.Cmp and the int comparers of the tests: -1, 0 or 1.
Cmp(a, b) == IF a < b THEN -1 ELSE IF a = b THEN 0 ELSE 1

\* A Comparer[V]: cmp(value, limit).
Compare(cmp, value, limit) ==
    IF cmp = "usage.Cmp(limit)" THEN Cmp(value, limit) ELSE Cmp(limit, value)

\* A mutant of ForMap: a value equal to its limit is let through.
RECURSIVE ForMapAllowEqual(_, _, _, _)
ForMapAllowEqual(cmp, data, limit, order) ==
    IF order = <<>> THEN [done |-> TRUE, err |-> "nil"]
    ELSE LET idx == Head(order) IN
         IF idx \notin DOMAIN limit THEN [done |-> FALSE, err |-> ErrLimitNotFound]
         ELSE IF Compare(cmp, data[idx], limit[idx]) > 0 THEN [done |-> FALSE, err |-> "nil"]
         ELSE ForMapAllowEqual(cmp, data, limit, Tail(order))

\* The classifier ForMap(cmp) applied to (data, limit), its range loop visiting
\* the keys of data in the given order: (done, err).
RECURSIVE ForMap(_, _, _, _)
ForMap(cmp, data, limit, order) ==
    IF order = <<>> THEN [done |-> TRUE, err |-> "nil"]
    ELSE LET idx == Head(order) IN
         IF idx \notin DOMAIN limit THEN [done |-> FALSE, err |-> ErrLimitNotFound]
         ELSE IF Compare(cmp, data[idx], limit[idx]) >= 0 THEN [done |-> FALSE, err |-> "nil"]
         ELSE ForMap(cmp, data, limit, Tail(order))

\* What one call of the classifier may return, over the iteration orders.
ClassifierOutcomes(cmp, data, limit) ==
    {ForMap(cmp, data, limit, order) : order \in Orders(DOMAIN data)}

\* A mutant of the limits check: only the keys that have a value are checked.
LimitsMismatchValuesOnly(values, limits, count) ==
    \E k \in (DOMAIN limits) \cap (DOMAIN values) : Len(limits[k]) # count

\* Classify, lines 57-62: some limit list differs in length from the classifiers.
LimitsMismatch(values, limits, count) ==
    \E k \in DOMAIN limits : Len(limits[k]) # count

\* limits[index]: the nil slice for a key that has no limits.
LimitsOf(limits, index) == IF index \in DOMAIN limits THEN limits[index] ELSE <<>>

\* A mutant of the walk: the loop does not break at the first match.
RECURSIVE WalkNoBreak(_, _, _, _)
WalkNoBreak(usage, limitList, classifiers, i) ==
    IF i > Len(limitList) THEN {<<>>}
    ELSE UNION {
        IF o.err # "nil" THEN {<<o>>}
        ELSE {<<o>> \o rest : rest \in WalkNoBreak(usage, limitList, classifiers, i + 1)}
        : o \in ClassifierOutcomes(classifiers[i], usage, limitList[i])}

\* Classify, lines 70-77: the classifier calls made for one value from position
\* i on, as the sequence of their outcomes; the walk ends at the first error or
\* the first match.
RECURSIVE Walk(_, _, _, _)
Walk(usage, limitList, classifiers, i) ==
    IF i > Len(limitList) THEN {<<>>}
    ELSE UNION {
        IF o.err # "nil" \/ o.done THEN {<<o>>}
        ELSE {<<o>> \o rest : rest \in Walk(usage, limitList, classifiers, i + 1)}
        : o \in ClassifierOutcomes(classifiers[i], usage, limitList[i])}

\* The buckets after the calls of log were made for (index, usage).
StoreMatches(result, log, index, usage) ==
    [i \in 1..Len(result) |->
        IF i <= Len(log) /\ log[i].done THEN MapPut(result[i], index, usage) ELSE result[i]]

\* The nil slice of buckets.
NilResult == [isNil |-> TRUE, buckets |-> <<>>]

ClassifyIdle ==
    /\ cValues = EmptyMap /\ cLimits = EmptyMap /\ cClassifiers = <<>>
    /\ cResult = NilResult /\ cErr = "nil" /\ cPending = {} /\ cCalls = EmptyMap
    /\ cPc = "idle"

\* A call Classify(values, limits, classifiers...).
ClassifyInit ==
    /\ cClassifiers \in SeqUpTo(Comparers, MaxClassifiers)
    /\ cValues \in PartialMaps(Keys, CUsageMaps)
    /\ cLimits \in PartialMaps(Keys, UNION {[1..l -> {m}] : l \in 0..MaxClassifiers, m \in CLimitMaps})
    /\ cResult = NilResult /\ cErr = "nil" /\ cPending = {} /\ cCalls = EmptyMap
    /\ cPc = "start"
    /\ PassIdle /\ NewIdle /\ AverageIdle /\ ThresholdIdle /\ AverageUsageIdle

\* Classify, lines 57-67: the limits check, then one empty bucket per classifier.
ClassifyBegin ==
    /\ cPc = "start"
    /\ IF LimitsMismatch(cValues, cLimits, Len(cClassifiers))
         THEN /\ cErr' = ErrLimitsMismatch
              /\ cPc' = "done"
              /\ UNCHANGED <<cResult, cPending>>
         ELSE /\ cResult' = [isNil |-> FALSE,
                             buckets |-> [i \in 1..Len(cClassifiers) |-> EmptyMap]]
              /\ cPending' = DOMAIN cValues
              /\ cPc' = "loop"
              /\ UNCHANGED cErr
    /\ UNCHANGED <<cValues, cLimits, cClassifiers, cCalls>>
    /\ UNCHANGED <<pvars, nvars, avars, tvars, uvars>>

\* Classify, lines 69-78: one iteration of the loop over values.
ClassifyValue ==
    /\ cPc = "loop"
    /\ \E index \in cPending :
       \E log \in Walk(cValues[index], LimitsOf(cLimits, index), cClassifiers, 1) :
          /\ cCalls' = MapPut(cCalls, index, log)
          /\ cPending' = cPending \ {index}
          /\ IF log # <<>> /\ log[Len(log)].err # "nil"
               THEN /\ cErr' = log[Len(log)].err
                    /\ cResult' = NilResult
                    /\ cPc' = "done"
               ELSE /\ cResult' = [cResult EXCEPT !.buckets =
                                        StoreMatches(@, log, index, cValues[index])]
                    /\ UNCHANGED <<cErr, cPc>>
    /\ UNCHANGED <<cValues, cLimits, cClassifiers>>
    /\ UNCHANGED <<pvars, nvars, avars, tvars, uvars>>

\* Classify, line 80: every value was visited.
ClassifyReturn ==
    /\ cPc = "loop"
    /\ cPending = {}
    /\ cPc' = "done"
    /\ UNCHANGED <<cValues, cLimits, cClassifiers, cResult, cErr, cPending, cCalls>>
    /\ UNCHANGED <<pvars, nvars, avars, tvars, uvars>>

ClassifyNext == ClassifyBegin \/ ClassifyValue \/ ClassifyReturn

\* The calls of Classify.
SpecClassify == ClassifyInit /\ [][ClassifyNext]_vars

-----------------------------------------------------------------------------
(* The cluster of one Balance pass: resources, nodes, pods.                 *)

LowNodeUtilizationPluginName == "LowNodeUtilization"

HighNodeUtilizationPluginName == "HighNodeUtilization"

\* UsageClientType.
RequestedUsageClientType == "RequestedUsageClient"

ActualUsageClientType == "ActualUsageClient"

PrometheusUsageClientType == "PrometheusUsageClient"

\* v1.ResourceCPU, v1.ResourceMemory, v1.ResourcePods.
BasicResources == {"cpu", "memory", "pods"}

\* usageclients.MetricResource, the resource of a prometheus query.
MetricResource == "MetricResource"

MinResourcePercentage == 0

MaxResourcePercentage == 100

\* m[k] of a map of numbers: the zero value for a missing key.
Get(m, k) == IF k \in DOMAIN m THEN m[k] ELSE 0

\* The sum of f[i] over the indices of a sequence of numbers.
RECURSIVE SumSeq(_)
SumSeq(f) == IF f = <<>> THEN 0 ELSE Head(f) + SumSeq(Tail(f))

\* The sum of the values of a map of numbers.
RECURSIVE SumMap(_)
SumMap(m) ==
    IF DOMAIN m = {} THEN 0
    ELSE LET k == CHOOSE x \in DOMAIN m : TRUE
         IN m[k] + SumMap([x \in (DOMAIN m) \ {k} |-> m[x]])

\* The elements of a sequence.
Range(f) == {f[i] : i \in DOMAIN f}

\* An api.Percentage: a float64, kept as the exact fraction n/d (d > 0).  The
\* percentages and capacities of the model are such that the float64
\* arithmetic of the code gives the truncations computed here.
Pct(n) == [n |-> n, d |-> 1]

RECURSIVE GCD(_, _)
GCD(a, b) == IF b = 0 THEN a ELSE GCD(b, a % b)

\* The fraction n/d in lowest terms.
PctReduce(n, d) ==
    LET g == GCD(IF n < 0 THEN -n ELSE n, d)
    IN [n |-> n \div g, d |-> d \div g]

PctAdd(a, b) == PctReduce(a.n * b.d + b.n * a.d, a.d * b.d)

PctSub(a, b) == PctReduce(a.n * b.d - b.n * a.d, a.d * b.d)

PctLess(a, b) == a.n * b.d < b.n * a.d

\* lowThreshold[resourceName] of an api.ResourceThresholds, 0 for a missing key.
PctOf(resourceThresholds, name) == Pct(Get(resourceThresholds, name))

-----------------------------------------------------------------------------
(* thresholds: NodeProcessor.                                               *)

\* The whole percentages p of 0..100 and the capacities c, of at most 200 or
\* of 1000, 2000, 4000, 8000 or 16000, of which the float64 product
\* float64(p) * 0.01 * float64(c), rounded after each multiplication as float64
\* arithmetic does, is below p * c / 100 although that is a whole number:
\* 29 * 0.01 is 0.29 and 0.29 * 100 is 28.999999999999996.
Float64RoundsBelow == {<<29, 100>>, <<29, 200>>, <<58, 50>>, <<58, 100>>, <<58, 200>>}

\* int64(float64(threshold) * 0.01 * float64(resourceCapacity)): truncated
\* toward zero, one less than the truncated quotient where the float64 product
\* is below a whole quotient.  The rounding of the products is modelled for
\* whole percentages only.  The quantity is in milli-units for cpu and in
\* whole units for every other resource, as the capacity it is a fraction of.
resourceThreshold(nodeCapacity, resourceName, threshold) ==
    LET resourceCapacity == Get(nodeCapacity, resourceName)
        num == threshold.n * resourceCapacity
        den == 100 * threshold.d
        quotient == IF num >= 0 THEN num \div den ELSE -((-num) \div den)
    IN IF threshold.d = 1 /\ <<threshold.n, resourceCapacity>> \in Float64RoundsBelow
         THEN quotient - 1
         ELSE quotient

normalizePercentage(percent) ==
    IF PctLess(Pct(MaxResourcePercentage), percent) THEN Pct(MaxResourcePercentage)
    ELSE IF PctLess(percent, Pct(MinResourcePercentage)) THEN Pct(MinResourcePercentage)
    ELSE percent

\* Status.Allocatable if it is not empty, Status.Capacity otherwise.
StatusCapacity(node) ==
    IF DOMAIN node.Allocatable # {} THEN node.Allocatable ELSE node.Capacity

\* Interface.NodeCapacity of the three usage clients.
NodeCapacity(client, node) ==
    IF client = PrometheusUsageClientType
      THEN [r \in {MetricResource} |-> 100]
      ELSE StatusCapacity(node)

\* averageNodeBasicResources: per resource, the sum over the nodes of
\* usage / capacity * 100, divided by the number of nodes.  The capacity is
\* that of the node's status.  The arithmetic is that of float64 without its
\* rounding: a percentage is a fraction n/d in lowest terms, the division of a
\* usage by a capacity of zero gives an infinity (1/0, -1/0) or, of a usage of
\* zero, NaN (0/0), and a sum with NaN, or of the two infinities, is NaN.
averageNodeBasicResources(utilization, nodeList) ==
    LET usageOf(i) == IF nodeList[i].Name \in DOMAIN utilization
                        THEN utilization[nodeList[i].Name] ELSE EmptyMap
        resources == UNION {DOMAIN usageOf(i) : i \in DOMAIN nodeList}
        sign(x) == IF x > 0 THEN 1 ELSE IF x < 0 THEN -1 ELSE 0
        quotient(usage, capacity) ==
            IF capacity = 0 THEN [n |-> sign(usage), d |-> 0]
                            ELSE PctReduce(usage * 100, capacity)
        sum(a, b) ==
            IF a.d # 0 /\ b.d # 0 THEN PctAdd(a, b)
            ELSE IF a.d # 0 THEN b
            ELSE IF b.d # 0 THEN a
            ELSE IF a.n = b.n THEN a
            ELSE [n |-> 0, d |-> 0]
        term(i, r) == IF r \in DOMAIN usageOf(i)
                        THEN quotient(usageOf(i)[r], Get(StatusCapacity(nodeList[i]), r))
                        ELSE Pct(0)
        Total[i \in 0..Len(nodeList)] ==
            [r \in resources |-> IF i = 0 THEN Pct(0) ELSE sum(Total[i - 1][r], term(i, r))]
    IN [r \in resources |->
           IF Total[Len(nodeList)][r].d = 0
             THEN Total[Len(nodeList)][r]
             ELSE PctReduce(Total[Len(nodeList)][r].n,
                            Total[Len(nodeList)][r].d * Len(nodeList))]

\* thresholdsForNode: the thresholds of one node, as quantities.
thresholdsForNode(client, processor, node, average) ==
    LET capacity == NodeCapacity(client, node)
        lowPct(r) == PctOf(processor.lowThreshold, r)
        highPct(r) == PctOf(processor.highThreshold, r)
        avg(r) == IF r \in DOMAIN average THEN average[r] ELSE Pct(0)
        low(r) ==
            IF ~processor.useDeviationThresholds
              THEN resourceThreshold(capacity, r, lowPct(r))
            ELSE IF Get(processor.lowThreshold, r) = MinResourcePercentage
              THEN Get(capacity, r)
            ELSE resourceThreshold(capacity, r, normalizePercentage(PctSub(avg(r), lowPct(r))))
        high(r) ==
            IF ~processor.useDeviationThresholds
              THEN resourceThreshold(capacity, r, highPct(r))
            ELSE IF Get(processor.lowThreshold, r) = MinResourcePercentage
              THEN Get(capacity, r)
            ELSE resourceThreshold(capacity, r, normalizePercentage(PctAdd(avg(r), highPct(r))))
    IN [Low |-> [r \in processor.resourceNames |-> low(r)],
        High |-> [r \in processor.resourceNames |-> high(r)]]

\* process: the thresholds of every node, by node name.
process(client, processor, utilization) ==
    LET average == IF processor.useDeviationThresholds
                     THEN averageNodeBasicResources(utilization, processor.nodes)
                     ELSE EmptyMap
    IN [name \in {processor.nodes[i].Name : i \in DOMAIN processor.nodes} |->
           LET node == CHOOSE nd \in Range(processor.nodes) : nd.Name = name
           IN thresholdsForNode(client, processor, node, average)]

\* IsNodeWithHighUtilization: some resource is above its threshold.
IsNodeWithHighUtilization(usage, threshold) ==
    \E name \in DOMAIN usage : threshold[name] < usage[name]

\* The calls thresholdsForNode(node, average) of the model: a processor over
\* the pod requests or over the prometheus query, with or without deviation
\* thresholds; one percentage for every resource of lowThreshold, one for
\* every resource of highThreshold; a node of 4 cpus, 4 units of memory and
\* room for 100 pods, or of 2 cpus, 8 units of memory and room for 50 pods;
\* and, with deviation thresholds, an average that is the same whole
\* percentage for every resource.
ThresholdsForNodeArgs ==
    {LET names == IF c = PrometheusUsageClientType
                    THEN {MetricResource} ELSE {"cpu", "memory", "pods"}
     IN [client |-> c,
         processor |->
             [lowThreshold |-> [r \in names |-> low],
              highThreshold |-> [r \in names |-> high],
              resourceNames |-> names,
              useDeviationThresholds |-> dev],
         node |-> [Name |-> "n1", Unschedulable |-> FALSE, Taints |-> {},
                   Capacity |-> capacity, Allocatable |-> EmptyMap],
         average |-> IF dev THEN [r \in names |-> Pct(avg)] ELSE EmptyMap] :
        c \in {RequestedUsageClientType, PrometheusUsageClientType},
        low \in {0, 20, 29}, high \in {30, 58, 100}, dev \in BOOLEAN,
        avg \in {10, 28, 45, 90},
        capacity \in {[cpu |-> 4000, memory |-> 4, pods |-> 100],
                      [cpu |-> 2000, memory |-> 8, pods |-> 50]}}

\* A call of thresholdsForNode.
ThresholdInit ==
    /\ tArgs \in ThresholdsForNodeArgs
    /\ tThresholds = EmptyMap /\ tPc = "start"
    /\ ClassifyIdle /\ PassIdle /\ NewIdle /\ AverageIdle /\ AverageUsageIdle

\* thresholdsForNode returns.
ThresholdsForNodeCall ==
    /\ tPc = "start"
    /\ tThresholds' = thresholdsForNode(tArgs.client, tArgs.processor, tArgs.node,
                                        tArgs.average)
    /\ tPc' = "done"
    /\ UNCHANGED tArgs
    /\ UNCHANGED <<cvars, pvars, nvars, avars, uvars>>

ThresholdNext == ThresholdsForNodeCall

\* The calls of thresholdsForNode.
SpecThreshold == ThresholdInit /\ [][ThresholdNext]_vars

\* The calls NodesAverageUsage(nodes) of the model: the usage client over the
\* pod requests, over the metrics server or over the prometheus query, after a
\* Sync that recorded a usage for every node; one or two nodes, the second
\* with allocatable resources that differ from its capacity.
NodesAverageUsageArgs ==
    LET n1 == [Name |-> "n1", Unschedulable |-> FALSE, Taints |-> {},
               Capacity |-> [cpu |-> 4000, memory |-> 4, pods |-> 4],
               Allocatable |-> EmptyMap]
        n2 == [Name |-> "n2", Unschedulable |-> FALSE, Taints |-> {},
               Capacity |-> [cpu |-> 4000, memory |-> 8, pods |-> 8],
               Allocatable |-> [cpu |-> 2000, memory |-> 8, pods |-> 4]]
        usagesOf(c) ==
            IF c = PrometheusUsageClientType
              THEN {[r \in {MetricResource} |-> v] : v \in {0, 20, 56, 90}}
            ELSE IF c = ActualUsageClientType
              THEN {[cpu |-> 0, memory |-> 0], [cpu |-> 500, memory |-> 1],
                    [cpu |-> 1000, memory |-> 3], [cpu |-> 2000, memory |-> 2]}
            ELSE {[cpu |-> 0, memory |-> 0, pods |-> 0],
                  [cpu |-> 1000, memory |-> 1, pods |-> 1],
                  [cpu |-> 1000, memory |-> 3, pods |-> 2],
                  [cpu |-> 2000, memory |-> 2, pods |-> 4]}
        nodeLists == {<<n1>>, <<n2>>, <<n1, n2>>}
    IN UNION {
         {[client |-> c, nodes |-> nodeList, nodeUtilization |-> u] :
              u \in [{nodeList[i].Name : i \in DOMAIN nodeList} -> usagesOf(c)]} :
           c \in {RequestedUsageClientType, ActualUsageClientType,
                  PrometheusUsageClientType},
           nodeList \in nodeLists}

\* A call of NodesAverageUsage.
AverageUsageInit ==
    /\ uArgs \in NodesAverageUsageArgs
    /\ uAverage = EmptyMap /\ uPc = "start"
    /\ ClassifyIdle /\ PassIdle /\ NewIdle /\ AverageIdle /\ ThresholdIdle

\* NodesAverageUsage returns: each of the three clients hands itself and the
\* nodes to averageNodeBasicResources.
NodesAverageUsage ==
    /\ uPc = "start"
    /\ uAverage' = averageNodeBasicResources(uArgs.nodeUtilization, uArgs.nodes)
    /\ uPc' = "done"
    /\ UNCHANGED uArgs
    /\ UNCHANGED <<cvars, pvars, nvars, avars, tvars>>

AverageUsageNext == NodesAverageUsage

\* The calls of NodesAverageUsage.
SpecAverageUsage == AverageUsageInit /\ [][AverageUsageNext]_vars

\* A mutant of IsNodeWithLowUtilization: a resource at its threshold counts as
\* above it.
IsNodeWithLowUtilizationBelow(usage, threshold) ==
    \A name \in DOMAIN usage : usage[name] < threshold[name]

\* IsNodeWithLowUtilization: no resource is above its threshold.
IsNodeWithLowUtilization(usage, threshold) ==
    \A name \in DOMAIN usage : ~(threshold[name] < usage[name])

-----------------------------------------------------------------------------
(* usageclients: the requested, the actual and the prometheus usage client. *)

\* The first index at which a sequence of booleans is true, its length plus
\* one if there is none.
FirstIndex(flags) ==
    IF \E i \in DOMAIN flags : flags[i]
      THEN CHOOSE i \in DOMAIN flags : flags[i] /\ \A j \in 1..(i - 1) : ~flags[j]
      ELSE Len(flags) + 1

\* The state a Sync leaves whose loop over the nodes fails at index failAt (past
\* the last node: it does not fail) with the error err: the usage and the
\* pods, given per index, of the nodes before failAt.
SyncResult(nodeList, failAt, err, usageAt, podsAt) ==
    LET stored == {i \in 1..Len(nodeList) : i < failAt}
        indexOf(name) == CHOOSE i \in stored : nodeList[i].Name = name
        names == {nodeList[i].Name : i \in stored}
    IN [err |-> IF failAt <= Len(nodeList) THEN err ELSE "nil",
        nodeUtilization |-> [name \in names |-> usageAt[indexOf(name)]],
        pods |-> [name \in names |-> podsAt[indexOf(name)]]]

\* The state a Sync leaves that fails before its loop over the nodes.
SyncFailed(err) == [err |-> err, nodeUtilization |-> EmptyMap, pods |-> EmptyMap]

\* nodeutil.NodeUtilization with the pods' requests: per resource name the sum
\* of the requests of the pods, and their number for pods.
NodeUtilization(podList, resourceNames) ==
    [r \in resourceNames |->
        IF r = "pods" THEN Len(podList)
        ELSE SumSeq([i \in DOMAIN podList |-> Get(podList[i].Requests, r)])]

\* RequestedUsageClient.Sync.  env.listFailAt is the node at which listing the
\* pods fails (0: at none).
RequestedSync(nodeList, api, resourceNames, env) ==
    LET failAt == FirstIndex([i \in DOMAIN nodeList |-> i = env.listFailAt])
        podsAt == [i \in DOMAIN nodeList |-> api[nodeList[i].Name]]
        usageAt == [i \in DOMAIN nodeList |-> NodeUtilization(podsAt[i], resourceNames)]
    IN SyncResult(nodeList, failAt, "error accessing node's pods", usageAt, podsAt)

\* RequestedUsageClient.PodUsage: the requests of the pod, per resource name.
RequestedPodUsage(pod, resourceNames) ==
    [r \in resourceNames |-> Get(pod.Requests, r)]

\* A mutant of ActualSync: the resources of the collected usage of a node are
\* not looked for.
ActualSyncAnyResources(nodeList, api, resourceNames, env) ==
    LET podsAt == [i \in DOMAIN nodeList |-> api[nodeList[i].Name]]
        found(i) == nodeList[i].Name \in DOMAIN env.metrics
        usageAt == [i \in DOMAIN nodeList |->
                       IF found(i)
                         THEN MapPut(env.metrics[nodeList[i].Name], "pods", Len(podsAt[i]))
                         ELSE EmptyMap]
        fails(i) == i = env.listFailAt \/ ~found(i)
        failAt == FirstIndex([i \in DOMAIN nodeList |-> fails(i)])
        err == IF failAt = env.listFailAt THEN "error accessing node's pods"
               ELSE "unable to find node in the collected metrics"
    IN IF env.metricsErr
         THEN SyncFailed("metrics collector error")
         ELSE SyncResult(nodeList, failAt, err, usageAt, podsAt)

\* ActualUsageClient.Sync.  env.metrics is what AllNodesUsage returns: a map of
\* usages by node name, env.metricsErr whether it fails.
ActualSync(nodeList, api, resourceNames, env) ==
    LET podsAt == [i \in DOMAIN nodeList |-> api[nodeList[i].Name]]
        found(i) == nodeList[i].Name \in DOMAIN env.metrics
        usageAt == [i \in DOMAIN nodeList |->
                       IF found(i)
                         THEN MapPut(env.metrics[nodeList[i].Name], "pods", Len(podsAt[i]))
                         ELSE EmptyMap]
        fails(i) ==
            \/ i = env.listFailAt
            \/ ~found(i)
            \/ \E r \in resourceNames : r \notin DOMAIN usageAt[i]
        failAt == FirstIndex([i \in DOMAIN nodeList |-> fails(i)])
        err == IF failAt = env.listFailAt THEN "error accessing node's pods"
               ELSE IF failAt <= Len(nodeList) /\ ~found(failAt)
                 THEN "unable to find node in the collected metrics"
               ELSE "unable to find resource for collected node metric"
    IN IF env.metricsErr
         THEN SyncFailed("metrics collector error")
         ELSE SyncResult(nodeList, failAt, err, usageAt, podsAt)

\* Sample values are kept in units of 1/SampleScale.
SampleScale == 10000

\* int64(sample.Value * 100).
SampleUsage(value) == (value * 100) \div SampleScale

\* int64(sample.Value * 100) of a sample whose value is NaN: the conversion
\* of a float64 that int64 cannot represent succeeds with a value the
\* implementation chooses, 0 or the lowest int64.  The lowest int64 is kept
\* as the lowest integer of 31 bits.
NaNAsInt64 == {0, -(2^30)}

\* PrometheusUsageClient.Sync.  env.query is the reply to the query: whether
\* it failed, its type, and its samples with their instance label ("" when the
\* label is missing) and value (nan: the value is NaN, which is neither below
\* 0 nor above 1).  env.nanAs is what int64 makes of a NaN.
PrometheusSync(nodeList, api, env) ==
    LET q == env.query
        noInstance(j) == q.samples[j].instance = ""
        outside(j) == /\ ~q.samples[j].nan
                      /\ (q.samples[j].value < 0 \/ q.samples[j].value > SampleScale)
        badSample == FirstIndex([j \in DOMAIN q.samples |-> noInstance(j) \/ outside(j)])
        \* nodeUsages: the last sample of an instance is the one kept
        hasSample(name) == \E j \in DOMAIN q.samples : q.samples[j].instance = name
        lastSample(name) ==
            q.samples[CHOOSE j \in DOMAIN q.samples :
                          /\ q.samples[j].instance = name
                          /\ \A l \in DOMAIN q.samples : q.samples[l].instance = name => l <= j]
        podsAt == [i \in DOMAIN nodeList |-> api[nodeList[i].Name]]
        usageAt == [i \in DOMAIN nodeList |->
                       IF hasSample(nodeList[i].Name)
                         THEN [r \in {MetricResource} |->
                                  IF lastSample(nodeList[i].Name).nan
                                    THEN env.nanAs
                                    ELSE SampleUsage(lastSample(nodeList[i].Name).value)]
                         ELSE EmptyMap]
        fails(i) == ~hasSample(nodeList[i].Name) \/ i = env.listFailAt
        failAt == FirstIndex([i \in DOMAIN nodeList |-> fails(i)])
        err == IF failAt <= Len(nodeList) /\ ~hasSample(nodeList[failAt].Name)
                 THEN "unable to find metric entry"
                 ELSE "error accessing node's pods"
    IN IF q.err THEN SyncFailed("unable to capture prometheus metrics")
       ELSE IF q.type # "vector"
         THEN SyncFailed("expected query results to be of type vector")
       ELSE IF badSample <= Len(q.samples)
         THEN IF noInstance(badSample)
                THEN SyncFailed("The collected metrics sample is missing 'instance' key")
                ELSE SyncFailed("The collected metrics sample has value outside of <0; 1> interval")
       ELSE SyncResult(nodeList, failAt, err, usageAt, podsAt)

\* A mutant of ClientSync: the error of Sync is dropped.
ClientSyncNoError(client, nodeList, api, resourceNames, env) ==
    LET r == IF client = RequestedUsageClientType
               THEN RequestedSync(nodeList, api, resourceNames, env)
             ELSE IF client = ActualUsageClientType
               THEN ActualSync(nodeList, api, resourceNames, env)
             ELSE PrometheusSync(nodeList, api, env)
    IN [r EXCEPT !.err = "nil"]

\* Interface.Sync of the client of the given type.
ClientSync(client, nodeList, api, resourceNames, env) ==
    IF client = RequestedUsageClientType THEN RequestedSync(nodeList, api, resourceNames, env)
    ELSE IF client = ActualUsageClientType THEN ActualSync(nodeList, api, resourceNames, env)
    ELSE PrometheusSync(nodeList, api, env)

\* getNodeUsage: the nodes in the order given, each with its usage and pods
\* (a nil map and a nil list for a node the client has no entry for).
getNodeUsage(utilization, podsOf, nodeList) ==
    [i \in DOMAIN nodeList |->
        [Node |-> nodeList[i],
         Usage |-> IF nodeList[i].Name \in DOMAIN utilization
                     THEN utilization[nodeList[i].Name] ELSE EmptyMap,
         AllPods |-> IF nodeList[i].Name \in DOMAIN podsOf
                       THEN podsOf[nodeList[i].Name] ELSE <<>>]]

-----------------------------------------------------------------------------
(* The plugins as their constructors build them.                            *)

\* setDefaultForLNUThresholds: a basic resource the thresholds lack gets, in
\* both maps, 100 (0 with deviation thresholds).
setDefaultForLNUThresholds(curThresholds, targetThresholds, useDeviationThresholds) ==
    LET missing == BasicResources \ DOMAIN curThresholds
        default == IF useDeviationThresholds THEN MinResourcePercentage
                   ELSE MaxResourcePercentage
    IN [Thresholds |->
            [r \in (DOMAIN curThresholds) \cup missing |->
                IF r \in missing THEN default ELSE curThresholds[r]],
        TargetThresholds |->
            [r \in (DOMAIN targetThresholds) \cup missing |->
                IF r \in missing THEN default ELSE targetThresholds[r]]]

\* setDefaultForThresholds: a basic resource the thresholds lack gets 100; the
\* target thresholds are 100 for every basic resource and every resource of
\* the thresholds.
setDefaultForThresholds(curThresholds) ==
    LET missing == BasicResources \ DOMAIN curThresholds
        all == (DOMAIN curThresholds) \cup missing
    IN [Thresholds |->
            [r \in all |-> IF r \in missing THEN MaxResourcePercentage ELSE curThresholds[r]],
        TargetThresholds |-> [r \in all |-> MaxResourcePercentage]]

\* NewLowNodeUtilization, for arguments it accepts.
NewLowNodeUtilization(a) ==
    LET d == IF a.PrometheusQuery
               THEN [Thresholds |-> a.Thresholds, TargetThresholds |-> a.TargetThresholds]
               ELSE setDefaultForLNUThresholds(a.Thresholds, a.TargetThresholds,
                                               a.UseDeviationThresholds)
    IN [name |-> LowNodeUtilizationPluginName,
        args |-> [Thresholds |-> d.Thresholds,
                  NumberOfNodes |-> a.NumberOfNodes,
                  UseDeviationThresholds |-> a.UseDeviationThresholds,
                  EvictableNamespaces |-> a.EvictableNamespaces],
        targetThresholds |-> d.TargetThresholds,
        resourceNames |-> DOMAIN d.Thresholds,
        clientType |-> IF a.MetricsServer THEN ActualUsageClientType
                       ELSE IF a.PrometheusQuery THEN PrometheusUsageClientType
                       ELSE RequestedUsageClientType]

\* NewHighNodeUtilization.
NewHighNodeUtilization(a) ==
    LET d == setDefaultForThresholds(a.Thresholds)
    IN [name |-> HighNodeUtilizationPluginName,
        args |-> [Thresholds |-> d.Thresholds,
                  NumberOfNodes |-> a.NumberOfNodes,
                  UseDeviationThresholds |-> FALSE,
                  EvictableNamespaces |-> a.EvictableNamespaces],
        targetThresholds |-> d.TargetThresholds,
        resourceNames |-> DOMAIN d.TargetThresholds,
        clientType |-> RequestedUsageClientType]

\* A mutant of NewLowNodeUtilizationErr: with a prometheus query only the
\* thresholds are checked, not the target thresholds.
NewLowNodeUtilizationErrThresholdsOnly(a, handle) ==
    LET single(t) == Cardinality(DOMAIN t) = 1 /\ MetricResource \in DOMAIN t
    IN IF a.PrometheusQuery /\ ~single(a.Thresholds)
         THEN "thresholds are expected to specify a single instance of %q resource, got %v instead"
       ELSE IF a.MetricsServer /\ ~handle.MetricsCollector
         THEN "metrics client not initialized"
       ELSE IF ~a.MetricsServer /\ a.PrometheusQuery /\ ~handle.PrometheusClient
         THEN "prometheus client not initialized"
       ELSE "nil"

\* NewLowNodeUtilization, the error it returns ("nil": none): with a
\* prometheus query the thresholds and the target thresholds must each name
\* the one resource MetricResource; the client the arguments select must not
\* be nil in the handle.
NewLowNodeUtilizationErr(a, handle) ==
    LET single(t) == Cardinality(DOMAIN t) = 1 /\ MetricResource \in DOMAIN t
    IN IF a.PrometheusQuery /\ ~single(a.Thresholds)
         THEN "thresholds are expected to specify a single instance of %q resource, got %v instead"
       ELSE IF a.PrometheusQuery /\ ~single(a.TargetThresholds)
         THEN "targetThresholds are expected to specify a single instance of %q resource, got %v instead"
       ELSE IF a.MetricsServer /\ ~handle.MetricsCollector
         THEN "metrics client not initialized"
       ELSE IF ~a.MetricsServer /\ a.PrometheusQuery /\ ~handle.PrometheusClient
         THEN "prometheus client not initialized"
       ELSE "nil"

\* The arguments of a call of NewLowNodeUtilization: thresholds of 20 percent
\* and target thresholds of 70 percent, each for any of the basic resources
\* and MetricResource.
NewLowNodeUtilizationArgs ==
    {[Thresholds |-> [r \in k |-> 20], TargetThresholds |-> [r \in kt |-> 70],
      NumberOfNodes |-> 0, UseDeviationThresholds |-> dev,
      EvictableNamespaces |-> [isNil |-> TRUE, Exclude |-> {}],
      MetricsServer |-> ms, PrometheusQuery |-> q] :
        k \in SUBSET (BasicResources \cup {MetricResource}),
        kt \in SUBSET (BasicResources \cup {MetricResource}),
        dev \in BOOLEAN, ms \in BOOLEAN, q \in BOOLEAN}

\* The handles: handle.MetricsCollector() and handle.PrometheusClient() are
\* nil (FALSE) or not.
Handles == [MetricsCollector : BOOLEAN, PrometheusClient : BOOLEAN]

\* A call NewLowNodeUtilization(args, handle).
NewInit ==
    /\ nArgs \in NewLowNodeUtilizationArgs
    /\ nHandle \in Handles
    /\ nPlugin = NoPlugin /\ nErr = "nil" /\ nPc = "start"
    /\ ClassifyIdle /\ PassIdle /\ AverageIdle /\ ThresholdIdle /\ AverageUsageIdle

\* NewLowNodeUtilization returns: an error and no plugin, or the plugin.
NewLNU ==
    /\ nPc = "start"
    /\ nErr' = NewLowNodeUtilizationErr(nArgs, nHandle)
    /\ nPlugin' = IF nErr' = "nil" THEN NewLowNodeUtilization(nArgs) ELSE NoPlugin
    /\ nPc' = "done"
    /\ UNCHANGED <<nArgs, nHandle>>
    /\ UNCHANGED <<cvars, pvars, avars, tvars, uvars>>

NewNext == NewLNU

\* The calls of NewLowNodeUtilization.
SpecNew == NewInit /\ [][NewNext]_vars

-----------------------------------------------------------------------------
(* classifier: Normalize and Average.                                       *)

\* Normalize: fn(value, total) for every key of usages that totals has too; fn
\* is a function on the pairs of a value and a total.
Normalize(usages, totals, fn) ==
    [key \in (DOMAIN usages) \cap (DOMAIN totals) |-> fn[<<usages[key], totals[key]>>]]

\* A mutant of Average: the sum of a name is divided by the number of inner
\* maps that have the name.
AverageOverPresent(values) ==
    LET names == UNION {DOMAIN values[k] : k \in DOMAIN values}
        RECURSIVE Sum(_, _)
        Sum(keys, name) ==
            IF keys = {} THEN Pct(0)
            ELSE LET k == CHOOSE x \in keys : TRUE
                 IN PctAdd(IF name \in DOMAIN values[k] THEN values[k][name] ELSE Pct(0),
                           Sum(keys \ {k}, name))
        present(name) == {k \in DOMAIN values : name \in DOMAIN values[k]}
    IN [name \in names |->
           PctReduce(Sum(DOMAIN values, name).n,
                     Sum(DOMAIN values, name).d * Cardinality(present(name)))]

\* Average: result[name] is the sum of the values of name in the inner maps,
\* then divided by len(values).  The numbers are the float64 of an
\* api.Percentage, kept as exact fractions.
Average(values) ==
    LET names == UNION {DOMAIN values[k] : k \in DOMAIN values}
        RECURSIVE Sum(_, _)
        Sum(keys, name) ==
            IF keys = {} THEN Pct(0)
            ELSE LET k == CHOOSE x \in keys : TRUE
                 IN PctAdd(IF name \in DOMAIN values[k] THEN values[k][name] ELSE Pct(0),
                           Sum(keys \ {k}, name))
    IN [name \in names |->
           PctReduce(Sum(DOMAIN values, name).n,
                     Sum(DOMAIN values, name).d * Cardinality(DOMAIN values))]

\* A mutant of ResourceUsageNormalizer: the fraction used / avail, not the
\* percentage.
ResourceUsageNormalizerFraction(usages, totals) ==
    IF \E rname \in DOMAIN usages : rname \notin DOMAIN totals THEN EmptyMap
    ELSE [rname \in DOMAIN usages |->
             LET pct == PctReduce(usages[rname], totals[rname])
             IN IF PctLess(Pct(100), pct) THEN Pct(100)
                ELSE IF PctLess(pct, Pct(0)) THEN Pct(0) ELSE pct]

\* ResourceUsageNormalizer: per resource of usages, used / avail * 100 held
\* within 0 and 100; the nil map if totals lacks a resource of usages.  The
\* quantities are in milli-units for cpu and whole units otherwise.
ResourceUsageNormalizer(usages, totals) ==
    IF \E rname \in DOMAIN usages : rname \notin DOMAIN totals THEN EmptyMap
    ELSE [rname \in DOMAIN usages |->
             LET pct == PctReduce(usages[rname] * 100, totals[rname])
             IN IF PctLess(Pct(100), pct) THEN Pct(100)
                ELSE IF PctLess(pct, Pct(0)) THEN Pct(0) ELSE pct]

\* The usages of one node: of cpu 1, 3 or 6 cpus or nothing, of memory 1 or 3
\* units or nothing.
AverageUsages ==
    UNION {[k -> {1000, 3000, 6000}] : k \in {{}, {"cpu"}}}
    \cup [{"memory"} -> {1, 3}]
    \cup {[cpu |-> c, memory |-> m] : c \in {1000, 3000, 6000}, m \in {1, 3}}

\* The totals of one node: 4 cpus and 4 units of memory, or 2 cpus and 8
\* units of memory.
AverageTotals == {[cpu |-> 4000, memory |-> 4], [cpu |-> 2000, memory |-> 8]}

\* A call Normalize(usages, totals, ResourceUsageNormalizer) for up to three
\* nodes.
AverageInit ==
    /\ aUsages \in PartialMaps(Range(<<"n1", "n2", "n3">>), AverageUsages)
    /\ aTotals \in PartialMaps(Range(<<"n1", "n2", "n3">>), AverageTotals)
    /\ aNormalized = EmptyMap /\ aAverage = EmptyMap /\ aPc = "start"
    /\ ClassifyIdle /\ PassIdle /\ NewIdle /\ ThresholdIdle /\ AverageUsageIdle

\* Normalize returns.
NormalizeCall ==
    /\ aPc = "start"
    /\ aNormalized' =
          Normalize(aUsages, aTotals,
                    [p \in AverageUsages \X AverageTotals |->
                        ResourceUsageNormalizer(p[1], p[2])])
    /\ aPc' = "normalized"
    /\ UNCHANGED <<aUsages, aTotals, aAverage>>
    /\ UNCHANGED <<cvars, pvars, nvars, tvars, uvars>>

\* Average of what Normalize returned.
AverageCall ==
    /\ aPc = "normalized"
    /\ aAverage' = Average(aNormalized)
    /\ aPc' = "done"
    /\ UNCHANGED <<aUsages, aTotals, aNormalized>>
    /\ UNCHANGED <<cvars, pvars, nvars, tvars, uvars>>

AverageNext == NormalizeCall \/ AverageCall

\* The calls of Normalize and Average.
SpecAverage == AverageInit /\ [][AverageNext]_vars

-----------------------------------------------------------------------------
(* Bounds of a Balance pass: the cluster and the arguments.                 *)

\* The largest NumberOfNodes of the arguments.
MaxNumberOfNodes == 1

\* The most pods of a pass that are skipped because PodUsage fails for them.
MaxSkipped == 1

\* The most calls of Evict of a pass that fail with another error than the
\* two limit errors.
MaxEvictErrors == 1

NodeNames == <<"n1", "n2", "n3">>

\* A node of 4 cpus (4000 milli-cpus), 4 units of memory and room for 4 pods.
\* The first node has a taint.
NodeOf(name, unschedulable) ==
    [Name |-> name, Unschedulable |-> unschedulable,
     Taints |-> IF name = NodeNames[1] THEN {"dedicated"} ELSE {},
     Capacity |-> [cpu |-> 4000, memory |-> 4, pods |-> 4],
     Allocatable |-> EmptyMap]

\* The node lists: three nodes, the last one schedulable or not.
NodeLists ==
    {[i \in DOMAIN NodeNames |-> NodeOf(NodeNames[i], i = 3 /\ u)] : u \in BOOLEAN}

\* The QoS classes of a pod, the one most tolerant to eviction first.
QoSTiers == <<"BestEffort", "Burstable", "Guaranteed">>

\* The pods: Evictable is what the evictor's Filter answers for the pod,
\* PreEviction what its PreEvictionFilter answers, Tolerations the taints the
\* pod tolerates.
PodA1 ==
    [Name |-> "a1", Namespace |-> "default", Priority |-> 0, QoS |-> "Burstable",
     Evictable |-> TRUE, PreEviction |-> TRUE, Tolerations |-> {"dedicated"},
     Requests |-> [cpu |-> 1000, memory |-> 1]]

PodA2 ==
    [Name |-> "a2", Namespace |-> "default", Priority |-> 0, QoS |-> "Guaranteed",
     Evictable |-> TRUE, PreEviction |-> TRUE, Tolerations |-> {"dedicated"},
     Requests |-> [cpu |-> 1000, memory |-> 1]]

PodB ==
    [Name |-> "b", Namespace |-> "default", Priority |-> 1, QoS |-> "Burstable",
     Evictable |-> TRUE, PreEviction |-> TRUE, Tolerations |-> {"dedicated"},
     Requests |-> [cpu |-> 2000]]

PodK ==
    [Name |-> "k", Namespace |-> "default", Priority |-> 2, QoS |-> "Burstable",
     Evictable |-> FALSE, PreEviction |-> TRUE, Tolerations |-> {"dedicated"},
     Requests |-> [cpu |-> 1000, memory |-> 1]]

\* A pod that tolerates no taint, of the priority and QoS class of PodA1.
PodN ==
    [Name |-> "n", Namespace |-> "default", Priority |-> 0, QoS |-> "Burstable",
     Evictable |-> TRUE, PreEviction |-> TRUE, Tolerations |-> {},
     Requests |-> [cpu |-> 1000, memory |-> 1]]

\* A pod without requests that the pre-eviction filter rejects.
PodF ==
    [Name |-> "f", Namespace |-> "default", Priority |-> 0, QoS |-> "BestEffort",
     Evictable |-> TRUE, PreEviction |-> FALSE, Tolerations |-> {"dedicated"},
     Requests |-> EmptyMap]

\* A pod of the namespace kube-system.
PodX ==
    [Name |-> "x", Namespace |-> "kube-system", Priority |-> 2, QoS |-> "Guaranteed",
     Evictable |-> TRUE, PreEviction |-> TRUE, Tolerations |-> {"dedicated"},
     Requests |-> [cpu |-> 1000, memory |-> 1]]

\* The pods of one node.
PodLists ==
    {<<>>, <<PodA1>>, <<PodB, PodA1>>, <<PodB, PodA1, PodA2>>, <<PodK, PodA1>>,
     <<PodX, PodF, PodN, PodA1>>}

\* The pods of every node, each pod with the name of its node.
PodAssignments ==
    {[n \in Range(NodeNames) |->
        [i \in DOMAIN l[n] |->
            [Name |-> l[n][i].Name, Namespace |-> l[n][i].Namespace, Node |-> n,
             Priority |-> l[n][i].Priority, QoS |-> l[n][i].QoS,
             Evictable |-> l[n][i].Evictable, PreEviction |-> l[n][i].PreEviction,
             Tolerations |-> l[n][i].Tolerations, Requests |-> l[n][i].Requests]]] :
     l \in [Range(NodeNames) -> PodLists]}

\* args.EvictableNamespaces: nil, or the namespaces to exclude.
NoNamespaces == [isNil |-> TRUE, Exclude |-> {}]

ExcludeKubeSystem == [isNil |-> FALSE, Exclude |-> {"kube-system"}]

\* The thresholds and target thresholds, in percent, one pair for every
\* resource of the arguments.
ThresholdPairs == {<<25, 50>>, <<50, 50>>}

\* Thresholds above the target thresholds, which no constructor rejects.
InvertedThresholdPairs == {<<50, 25>>}

\* The resources the arguments name: all basic ones, or all but pods.
ThresholdKeys == {BasicResources, {"cpu", "memory"}}

\* The thresholds of a prometheus query.
MetricThresholdPairs == {<<30, 60>>}

\* The arguments of LowNodeUtilization without a prometheus query: they
\* exclude the namespace kube-system unless the thresholds are deviations.
LNUArgs(t, k, n, dev, ms) ==
    [Thresholds |-> [r \in k |-> t[1]], TargetThresholds |-> [r \in k |-> t[2]],
     NumberOfNodes |-> n, UseDeviationThresholds |-> dev,
     EvictableNamespaces |-> IF dev THEN NoNamespaces ELSE ExcludeKubeSystem,
     MetricsServer |-> ms, PrometheusQuery |-> FALSE]

\* The arguments of LowNodeUtilization: the requests of the pods, with the
\* thresholds as they are or as deviations; the metrics server; a prometheus
\* query.
LowNodeUtilizationArgs ==
    {LNUArgs(t, k, n, FALSE, FALSE) :
        t \in ThresholdPairs, k \in ThresholdKeys, n \in 0..MaxNumberOfNodes}
    \cup
    {LNUArgs(t, BasicResources, n, FALSE, FALSE) :
        t \in InvertedThresholdPairs, n \in 0..MaxNumberOfNodes}
    \cup
    {LNUArgs(t, k, n, TRUE, FALSE) :
        t \in ThresholdPairs, k \in ThresholdKeys, n \in 0..MaxNumberOfNodes}
    \cup
    {LNUArgs(t, BasicResources, n, FALSE, TRUE) :
        t \in ThresholdPairs, n \in 0..MaxNumberOfNodes}
    \cup
    {[Thresholds |-> [r \in {MetricResource} |-> t[1]],
      TargetThresholds |-> [r \in {MetricResource} |-> t[2]],
      NumberOfNodes |-> n, UseDeviationThresholds |-> FALSE,
      EvictableNamespaces |-> NoNamespaces,
      MetricsServer |-> FALSE, PrometheusQuery |-> TRUE] :
        t \in MetricThresholdPairs, n \in 0..MaxNumberOfNodes}

\* The arguments of HighNodeUtilization.
HighNodeUtilizationArgs ==
    {[Thresholds |-> [r \in k |-> t[1]], NumberOfNodes |-> n,
      EvictableNamespaces |-> e] :
        t \in ThresholdPairs, k \in ThresholdKeys, n \in 0..MaxNumberOfNodes,
        e \in {NoNamespaces, ExcludeKubeSystem}}

\* The plugins of the model.
Plugins ==
    {NewLowNodeUtilization(a) : a \in LowNodeUtilizationArgs}
    \cup {NewHighNodeUtilization(a) : a \in HighNodeUtilizationArgs}

-----------------------------------------------------------------------------
(* What the cluster answers during a pass.                                  *)

\* The map m without the key k.
Without(m, k) == [x \in (DOMAIN m) \ {k} |-> m[x]]

\* The usage the metrics server reports for the nodes: cpu and memory, as much
\* as the pods of the node request.
MetricsOf(api) ==
    [n \in DOMAIN api |->
        [r \in {"cpu", "memory"} |->
            SumSeq([i \in DOMAIN api[n] |-> Get(api[n][i].Requests, r)])]]

\* The values of the samples of a prometheus query, in units of 1/SampleScale:
\* 0.2038, 0.5695, 0.9, and 1.2 which is outside of <0; 1>.
SampleValues == {2038, 5695, 9000}

SampleOutOfRange == 12000

\* The samples of a reply: one per node, in the order of the nodes.
SamplesOf(nodeList, value) ==
    [i \in DOMAIN nodeList |->
        [instance |-> nodeList[i].Name, value |-> value[nodeList[i].Name], nan |-> FALSE]]

\* What the cluster answers to one Sync: listing the pods of a node may fail
\* (listFailAt), the metrics collector may fail or lack a node or a resource,
\* the prometheus query may fail, be no vector, hold a sample without instance
\* or with a value out of range or a value that is NaN, or lack the first or
\* the last node.
SyncEnvs(client, nodeList, api) ==
    LET listFails == {[listFailAt |-> f] : f \in 0..Len(nodeList)}
        names == {nodeList[i].Name : i \in DOMAIN nodeList}
        full == MetricsOf(api)
        metrics ==
            {full} \cup {Without(full, n) : n \in names}
                   \cup {[full EXCEPT ![n] = Without(full[n], "memory")] : n \in names}
        withMetrics(e) ==
            {[listFailAt |-> e.listFailAt, metricsErr |-> FALSE, metrics |-> full]}
        samples == {SamplesOf(nodeList, v) : v \in [names -> SampleValues]}
        broken(smp) ==
            {Tail(smp),
             SubSeq(smp, 1, Len(smp) - 1),
             [smp EXCEPT ![1].instance = ""],
             [smp EXCEPT ![Len(smp)].value = SampleOutOfRange],
             [smp EXCEPT ![1].value = -1],
             smp \o <<[smp[1] EXCEPT !.value = 0]>>}
        reply(smp) == [err |-> FALSE, type |-> "vector", samples |-> smp]
        first == CHOOSE smp \in samples : TRUE
    IN IF client = RequestedUsageClientType THEN listFails
       ELSE IF client = ActualUsageClientType
         THEN UNION {withMetrics(e) : e \in listFails}
              \cup {[listFailAt |-> 0, metricsErr |-> FALSE, metrics |-> m] : m \in metrics}
              \cup {[listFailAt |-> 0, metricsErr |-> TRUE, metrics |-> full]}
       ELSE {[listFailAt |-> 0, query |-> reply(smp)] : smp \in samples}
            \cup {[listFailAt |-> 0, query |-> reply(smp)] : smp \in broken(first)}
            \cup {[listFailAt |-> 0, query |-> reply([first EXCEPT ![1].nan = TRUE]),
                    nanAs |-> v] : v \in NaNAsInt64}
            \cup {[listFailAt |-> e.listFailAt, query |-> reply(first)] : e \in listFails}
            \cup {[listFailAt |-> 0, query |-> [reply(first) EXCEPT !.err = TRUE]],
                  [listFailAt |-> 0, query |-> [reply(first) EXCEPT !.type = "matrix"]]}

\* With a prometheus query the pods of a node are one or three.
PodAssignmentsOf(p) ==
    IF p.clientType = PrometheusUsageClientType
      THEN {a \in PodAssignments : \A n \in DOMAIN a : Len(a[n]) \in {1, 3}}
      ELSE PodAssignments

-----------------------------------------------------------------------------
(* Balance.                                                                 *)

NilStatus == [Err |-> "nil", cause |-> "nil"]

\* A plugin and the nodes and pods of the cluster, before Balance is called.
Init ==
    /\ ClassifyIdle /\ NewIdle /\ AverageIdle /\ ThresholdIdle /\ AverageUsageIdle
    /\ plugin \in Plugins
    /\ nodes \in NodeLists
    /\ apiPods \in PodAssignmentsOf(plugin)
    /\ syncEnv = NoEnv
    /\ cancelled = FALSE
    /\ usageClient = [nodeUtilization |-> EmptyMap, pods |-> EmptyMap]
    /\ lowNodes = <<>> /\ highNodes = <<>>
    /\ totalAvailableUsage = EmptyMap /\ srcIdx = 0 /\ inputPods = <<>>
    /\ podIdx = 0 /\ skipped = 0 /\ evictCalls = <<>> /\ lastStep = "new"
    /\ status = NilStatus /\ pc = "sync"

\* Balance, the call of usageClient.Sync(nodes): an error ends the pass.
BalanceSync ==
    /\ pc = "sync"
    /\ \E env \in SyncEnvs(plugin.clientType, nodes, apiPods) :
          LET r == ClientSync(plugin.clientType, nodes, apiPods, plugin.resourceNames, env)
          IN /\ syncEnv' = env
             /\ usageClient' = [nodeUtilization |-> r.nodeUtilization, pods |-> r.pods]
             /\ IF r.err # "nil"
                  THEN /\ status' = [Err |-> "error getting node usage: %v", cause |-> r.err]
                       /\ pc' = "done"
                       /\ lastStep' = "sync failed"
                  ELSE /\ status' = status
                       /\ pc' = "classify"
                       /\ lastStep' = "synced"
    /\ UNCHANGED <<plugin, nodes, apiPods, cancelled, lowNodes, highNodes, totalAvailableUsage,
                   srcIdx, inputPods, podIdx, skipped, evictCalls>>
    /\ UNCHANGED <<cvars, nvars, avars, tvars, uvars>>

\* nodeInfo.Usage: the map of the usage client, which the NodeInfo shares.
UsageOf(nodeInfo) == usageClient.nodeUtilization[nodeInfo.Node.Name]

\* nodeInfo.AllPods.
AllPodsOf(nodeInfo) == usageClient.pods[nodeInfo.Node.Name]

\* Every arrangement of seq in which no element is before one it is not less
\* than but greater (ascending) or smaller (descending) by its key: what
\* sort.Slice may leave, which does not keep the order of ties.
SortSlice(seq, key, ascending) ==
    LET less(a, b) == IF ascending THEN key[a] < key[b] ELSE key[a] > key[b]
    IN {[i \in DOMAIN seq |-> seq[p[i]]] :
           p \in {q \in Orders(DOMAIN seq) :
                    \A i, j \in DOMAIN seq : i < j => ~less(q[j], q[i])}}

\* A mutant of sortNodesByUsage: the order is ascending for both plugins.
sortNodesByUsageAscending(nodeInfos, usage, ascending) ==
    SortSlice(nodeInfos,
              [i \in DOMAIN nodeInfos |-> SumMap(usage[nodeInfos[i].Node.Name])],
              TRUE)

\* sortNodesByUsage: by the sum of the usage, milli-cpus and units alike.
sortNodesByUsage(nodeInfos, usage, ascending) ==
    SortSlice(nodeInfos,
              [i \in DOMAIN nodeInfos |-> SumMap(usage[nodeInfos[i].Node.Name])],
              ascending)

\* isNodeAboveTargetUtilization: some resource is above its threshold.
isNodeAboveTargetUtilization(usage, threshold) ==
    \E name \in DOMAIN usage : threshold[name] < usage[name]

\* A mutant of continueEvictionCond: the source node is not looked at.
continueEvictionCondHeadroomOnly(pluginName, usage, high, total) ==
    \A name \in DOMAIN total : ~(total[name] < 1)

\* continueEvictionCond of the two plugins: every headroom is above zero and,
\* in LowNodeUtilization, the node is above its target utilization.
continueEvictionCond(pluginName, usage, high, total) ==
    /\ pluginName = LowNodeUtilizationPluginName
          => isNodeAboveTargetUtilization(usage, high)
    /\ \A name \in DOMAIN total : ~(total[name] < 1)

\* The source and the destination nodes of evictPodsFromSourceNodes.
SourceNodes ==
    IF plugin.name = LowNodeUtilizationPluginName THEN highNodes ELSE lowNodes

\* A mutant of DestinationNodes: the source nodes are taken.
DestinationNodesAreSources ==
    IF plugin.name = LowNodeUtilizationPluginName THEN highNodes ELSE lowNodes

DestinationNodes ==
    IF plugin.name = LowNodeUtilizationPluginName THEN lowNodes ELSE highNodes

\* A mutant of Guard: as many underutilized nodes as NumberOfNodes are enough.
GuardBelowNumberOfNodes(lowCount, highCount, nodeCount, numberOfNodes) ==
    IF lowCount = 0 THEN "no node is underutilized"
    ELSE IF lowCount < numberOfNodes THEN "underutilized nodes <= NumberOfNodes"
    ELSE IF lowCount = nodeCount THEN "all nodes are underutilized"
    ELSE IF highCount = 0 THEN "no node to move the pods from or to"
    ELSE "none"

\* Balance, the guards that follow the classification: which of them ends the
\* pass, "none" if none does.
Guard(lowCount, highCount, nodeCount, numberOfNodes) ==
    IF lowCount = 0 THEN "no node is underutilized"
    ELSE IF lowCount <= numberOfNodes THEN "underutilized nodes <= NumberOfNodes"
    ELSE IF lowCount = nodeCount THEN "all nodes are underutilized"
    ELSE IF highCount = 0 THEN "no node to move the pods from or to"
    ELSE "none"

\* Balance, from NewNodeProcessor to the call of evictPodsFromSourceNodes: the
\* classification of the nodes, the guards, and the sort of the source nodes.
BalanceClassify ==
    /\ pc = "classify"
    /\ LET processor ==
               [nodes |-> nodes, lowThreshold |-> plugin.args.Thresholds,
                highThreshold |-> plugin.targetThresholds,
                resourceNames |-> plugin.resourceNames,
                useDeviationThresholds |-> plugin.args.UseDeviationThresholds]
           thresholds == process(plugin.clientType, processor, usageClient.nodeUtilization)
           usages == getNodeUsage(usageClient.nodeUtilization, usageClient.pods, nodes)
           info(u) == [Node |-> u.Node, thresholds |-> thresholds[u.Node.Name]]
           low(u) == IsNodeWithLowUtilization(u.Usage, thresholds[u.Node.Name].Low)
           high(u) == IsNodeWithHighUtilization(u.Usage, thresholds[u.Node.Name].High)
           isLowNode(u) ==
               IF plugin.name = LowNodeUtilizationPluginName
                 THEN ~u.Node.Unschedulable /\ low(u)
                 ELSE low(u)
           isHighNode(u) ==
               IF plugin.name = LowNodeUtilizationPluginName
                 THEN high(u)
                 ELSE ~u.Node.Unschedulable /\ ~low(u)
           lows == SelectSeq(usages, isLowNode)
           highs == SelectSeq(usages, isHighNode)
           lowInfos == [i \in DOMAIN lows |-> info(lows[i])]
           highInfos == [i \in DOMAIN highs |-> info(highs[i])]
           guard == Guard(Len(lowInfos), Len(highInfos), Len(nodes),
                          plugin.args.NumberOfNodes)
       IN IF guard # "none"
            THEN /\ lowNodes' = lowInfos
                 /\ highNodes' = highInfos
                 /\ lastStep' = guard
                 /\ pc' = "done"
            ELSE /\ IF plugin.name = LowNodeUtilizationPluginName
                      THEN /\ lowNodes' = lowInfos
                           /\ highNodes' \in sortNodesByUsage(highInfos,
                                                 usageClient.nodeUtilization, FALSE)
                      ELSE /\ lowNodes' \in sortNodesByUsage(lowInfos,
                                                 usageClient.nodeUtilization, TRUE)
                           /\ highNodes' = highInfos
                 /\ lastStep' = "classified"
                 /\ pc' = "headroom"
    /\ UNCHANGED <<plugin, nodes, apiPods, cancelled, syncEnv, usageClient, totalAvailableUsage,
                   srcIdx, inputPods, podIdx, skipped, evictCalls, status>>
    /\ UNCHANGED <<cvars, nvars, avars, tvars, uvars>>

\* A mutant of EvictStart: the usage of the destination nodes is not looked
\* for, a resource it lacks counts as zero.
EvictStartNoCheck ==
    /\ pc = "headroom"
    /\ LET dest == DestinationNodes
       IN /\ totalAvailableUsage' =
                 [name \in plugin.resourceNames |->
                     SumSeq([i \in DOMAIN dest |->
                         dest[i].thresholds.High[name] - Get(UsageOf(dest[i]), name)])]
          /\ lastStep' = "total capacity to be moved"
          /\ pc' = "nodes"
    /\ UNCHANGED <<plugin, nodes, apiPods, cancelled, syncEnv, usageClient, lowNodes, highNodes,
                   srcIdx, inputPods, podIdx, skipped, evictCalls, status>>
    /\ UNCHANGED <<cvars, nvars, avars, tvars, uvars>>

\* evictPodsFromSourceNodes, lines 321-342: the headroom of the destination
\* nodes; a destination node whose usage lacks a resource ends the pass.
EvictStart ==
    /\ pc = "headroom"
    /\ LET dest == DestinationNodes
           missing == \E i \in DOMAIN dest : \E name \in plugin.resourceNames :
                          name \notin DOMAIN UsageOf(dest[i])
       IN IF missing
            THEN /\ totalAvailableUsage' = [name \in plugin.resourceNames |-> 0]
                 /\ lastStep' = "unable to find resource in node's usage"
                 /\ pc' = "done"
            ELSE /\ totalAvailableUsage' =
                        [name \in plugin.resourceNames |->
                            SumSeq([i \in DOMAIN dest |->
                                dest[i].thresholds.High[name] - UsageOf(dest[i])[name]])]
                 /\ lastStep' = "total capacity to be moved"
                 /\ pc' = "nodes"
    /\ UNCHANGED <<plugin, nodes, apiPods, cancelled, syncEnv, usageClient, lowNodes, highNodes,
                   srcIdx, inputPods, podIdx, skipped, evictCalls, status>>
    /\ UNCHANGED <<cvars, nvars, avars, tvars, uvars>>

\* classifyPods: the pods the filter accepts, in their order.
classifyPods(podList) == SelectSeq(podList, LAMBDA pod : pod.Evictable)

\* The place of a QoS class among the QoS classes.
QoSRank(qos) == CHOOSE i \in DOMAIN QoSTiers : QoSTiers[i] = qos

\* podutil.SortPodsBasedOnPriorityLowToHigh: by priority, lowest first, and
\* among pods of one priority by QoS class, BestEffort first.
SortPodsBasedOnPriorityLowToHigh(podList) ==
    SortSlice(podList,
              [i \in DOMAIN podList |->
                  podList[i].Priority * Len(QoSTiers) + QoSRank(podList[i].QoS)],
              TRUE)

\* evictPodsFromSourceNodes, lines 347-361, and evictPods up to line 389: the
\* next source node, its removable pods, and whether eviction may start.
SourceNode ==
    /\ pc = "nodes"
    /\ srcIdx < Len(SourceNodes)
    /\ srcIdx' = srcIdx + 1
    /\ UNCHANGED skipped
    /\ LET node == SourceNodes[srcIdx + 1]
           removablePods == classifyPods(AllPodsOf(node))
       IN IF Len(removablePods) = 0
            THEN /\ lastStep' = "no removable pods on node"
                 /\ UNCHANGED <<inputPods, podIdx, pc>>
            ELSE /\ inputPods' \in SortPodsBasedOnPriorityLowToHigh(removablePods)
                 /\ podIdx' = 0
                 /\ IF continueEvictionCond(plugin.name, UsageOf(node),
                                            node.thresholds.High, totalAvailableUsage)
                      THEN /\ lastStep' = "evicting pods from node"
                           /\ pc' = "pods"
                      ELSE /\ lastStep' = "eviction may not start"
                           /\ pc' = "nodes"
    /\ UNCHANGED <<plugin, nodes, apiPods, cancelled, syncEnv, usageClient, lowNodes, highNodes,
                   totalAvailableUsage, evictCalls, status>>
    /\ UNCHANGED <<cvars, nvars, avars, tvars, uvars>>

\* evictPodsFromSourceNodes, line 369: every source node was taken.
BalanceReturn ==
    /\ pc = "nodes"
    /\ srcIdx = Len(SourceNodes)
    /\ pc' = "done"
    /\ lastStep' = "no source node left"
    /\ UNCHANGED <<plugin, nodes, apiPods, cancelled, syncEnv, usageClient, lowNodes, highNodes,
                   totalAvailableUsage, srcIdx, inputPods, podIdx, skipped, evictCalls, status>>
    /\ UNCHANGED <<cvars, nvars, avars, tvars, uvars>>

\* evictions.EvictionNodeLimitError and evictions.EvictionTotalLimitError.
EvictionNodeLimitError == "EvictionNodeLimitError"

EvictionTotalLimitError == "EvictionTotalLimitError"

\* What podEvictor.Evict may return: nil, one of the two limit errors, or
\* another error.
EvictResults == {"nil", EvictionNodeLimitError, EvictionTotalLimitError, "error"}

\* At most MaxEvictErrors calls of Evict of a pass fail with another error.
EvictResultsNow ==
    IF Cardinality({i \in DOMAIN evictCalls : evictCalls[i].err = "error"}) < MaxEvictErrors
      THEN EvictResults
      ELSE EvictResults \ {"error"}

NotSupportedError == "NotSupportedError"

\* ActualUsageClient.PodUsage, lines 86-101: per resource name of the client
\* the usage of the containers that report it.
ActualPodUsage(containers, resourceNames) ==
    LET reported == {r \in resourceNames : \E i \in DOMAIN containers : r \in DOMAIN containers[i]}
    IN [r \in reported |-> SumSeq([i \in DOMAIN containers |-> Get(containers[i], r)])]

\* The metrics of the containers of a pod the metrics server may hold: one
\* container that uses what the pod requests, with or without memory.
PodMetricses(pod) ==
    {<<[cpu |-> Get(pod.Requests, "cpu"), memory |-> Get(pod.Requests, "memory")]>>,
     <<[cpu |-> Get(pod.Requests, "cpu")]>>}

\* Interface.PodUsage of the client, when it does not fail with another error
\* than NotSupportedError.
PodUsages(client, pod, resourceNames) ==
    IF client = RequestedUsageClientType
      THEN {[err |-> "nil", usage |-> RequestedPodUsage(pod, resourceNames)]}
    ELSE IF client = ActualUsageClientType
      THEN {[err |-> "nil", usage |-> ActualPodUsage(c, resourceNames)] : c \in PodMetricses(pod)}
    ELSE {[err |-> NotSupportedError, usage |-> EmptyMap]}

\* The source node evictPods is working on, and the pod its loop is at.
\* A mutant of CurrentNode: the evictions are accounted for at the first source
\* node.
CurrentNodeIsFirst == SourceNodes[1]

CurrentNode == SourceNodes[srcIdx]

\* A mutant of CurrentPod: the loop over the pods takes the first pod again.
CurrentPodIsFirst == inputPods[1]

CurrentPod == inputPods[podIdx + 1]

\* evictPodsFromSourceNodes, lines 326-328: the taints of the destination
\* nodes, by node name.
taintsOfDestinationNodes ==
    [name \in {DestinationNodes[i].Node.Name : i \in DOMAIN DestinationNodes} |->
        LET i == CHOOSE j \in DOMAIN DestinationNodes : DestinationNodes[j].Node.Name = name
        IN DestinationNodes[i].Node.Taints]

\* utils.PodToleratesTaints: the pod tolerates every taint of every node.
PodToleratesTaints(pod, taintsOfNodes) ==
    \A name \in DOMAIN taintsOfNodes : taintsOfNodes[name] \subseteq pod.Tolerations

\* evictPods, lines 383-386: the namespaces to exclude.
excludedNamespaces(evictableNamespaces) ==
    IF evictableNamespaces.isNil THEN {} ELSE evictableNamespaces.Exclude

\* evictPods, lines 396-399: the filter built from podEvictor.PreEvictionFilter
\* and WithoutNamespaces(excludedNamespaces).
preEvictionFilterWithOptions(pod, excluded) ==
    pod.PreEviction /\ pod.Namespace \notin excluded

\* A mutant of PodCheck: the taints of the destination nodes are not looked at.
PodCheckNoTaints(pod, taintsOfNodes, excluded) ==
    IF ~preEvictionFilterWithOptions(pod, excluded) THEN "pre-eviction filter"
    ELSE "evict"

\* evictPods, lines 391-407: what the loop does with a pod before it asks for
\* its usage: it skips it for a taint or for the pre-eviction filter, or goes
\* on to evict it.
PodCheck(pod, taintsOfNodes, excluded) ==
    IF ~PodToleratesTaints(pod, taintsOfNodes) THEN "pod doesn't tolerate node taint"
    ELSE IF ~preEvictionFilterWithOptions(pod, excluded) THEN "pre-eviction filter"
    ELSE "evict"

\* PodCheck of the pod the loop of evictPods is at.
CurrentPodCheck ==
    PodCheck(CurrentPod, taintsOfDestinationNodes,
             excludedNamespaces(plugin.args.EvictableNamespaces))

\* evictPods, lines 391-394: the pod does not tolerate the taints of the
\* destination nodes.
SkipTaint ==
    /\ pc = "pods"
    /\ podIdx < Len(inputPods)
    /\ CurrentPodCheck = "pod doesn't tolerate node taint"
    /\ UNCHANGED skipped
    /\ podIdx' = podIdx + 1
    /\ lastStep' = "pod doesn't tolerate node taint"
    /\ UNCHANGED <<plugin, nodes, apiPods, cancelled, syncEnv, usageClient, lowNodes, highNodes,
                   totalAvailableUsage, srcIdx, inputPods, evictCalls, status, pc>>
    /\ UNCHANGED <<cvars, nvars, avars, tvars, uvars>>

\* evictPods, lines 396-407: the pre-eviction filter rejects the pod.
SkipPreEvictionFilter ==
    /\ pc = "pods"
    /\ podIdx < Len(inputPods)
    /\ CurrentPodCheck = "pre-eviction filter"
    /\ UNCHANGED skipped
    /\ podIdx' = podIdx + 1
    /\ lastStep' = "pre-eviction filter"
    /\ UNCHANGED <<plugin, nodes, apiPods, cancelled, syncEnv, usageClient, lowNodes, highNodes,
                   totalAvailableUsage, srcIdx, inputPods, evictCalls, status, pc>>
    /\ UNCHANGED <<cvars, nvars, avars, tvars, uvars>>

\* evictPods, lines 414-419: PodUsage fails with another error than
\* NotSupportedError, which only the client of the metrics server does.
SkipPodUsageError ==
    /\ pc = "pods"
    /\ podIdx < Len(inputPods)
    /\ CurrentPodCheck = "evict"
    /\ plugin.clientType = ActualUsageClientType
    /\ skipped < MaxSkipped
    /\ skipped' = skipped + 1
    /\ podIdx' = podIdx + 1
    /\ lastStep' = "unable to get pod usage"
    /\ UNCHANGED <<plugin, nodes, apiPods, cancelled, syncEnv, usageClient, lowNodes, highNodes,
                   totalAvailableUsage, srcIdx, inputPods, evictCalls, status, pc>>
    /\ UNCHANGED <<cvars, nvars, avars, tvars, uvars>>

\* The entry of evictCalls for a call of Evict: the pod and its node, what
\* Evict returned, and the state the call was made in.
EvictCall(node, pod, singleEviction, err) ==
    [node |-> node.Node.Name, pod |-> pod.Name, err |-> err,
     singleEviction |-> singleEviction,
     usage |-> UsageOf(node), high |-> node.thresholds.High,
     totalAvailableUsage |-> totalAvailableUsage]

\* A mutant of Subtract: the usage of the pod is added.
SubtractAdds(quantities, podUsage, names) ==
    [name \in DOMAIN quantities |->
        IF name \notin names THEN quantities[name]
        ELSE IF name = "pods" THEN quantities[name] + 1
        ELSE quantities[name] + podUsage[name]]

\* evictPods, lines 429-437: usage and headroom less the usage of the pod, one
\* for pods.
Subtract(quantities, podUsage, names) ==
    [name \in DOMAIN quantities |->
        IF name \notin names THEN quantities[name]
        ELSE IF name = "pods" THEN quantities[name] - 1
        ELSE quantities[name] - podUsage[name]]

\* A mutant of AfterEviction: a single eviction does not end the loop.
AfterEvictionNoBreak(singleEviction, continue) ==
    IF singleEviction THEN "continue"
    ELSE IF ~continue THEN "break" ELSE "continue"

\* evictPods, lines 425-448: what follows an eviction that succeeded.
AfterEviction(singleEviction, continue) ==
    IF singleEviction THEN "break"
    ELSE IF ~continue THEN "break" ELSE "continue"

\* A mutant of AfterEvictError: a limit error of the node is logged as any
\* other error.
AfterEvictErrorNodeLimitLogged(err) ==
    IF err = EvictionTotalLimitError THEN "return all" ELSE "continue"

\* A mutant of AfterEvictError: the limit error of the pass ends the node only.
AfterEvictErrorTotalAsNode(err) ==
    IF err \in {EvictionNodeLimitError, EvictionTotalLimitError} THEN "return"
    ELSE "continue"

\* A mutant of AfterEvictError: any error of Evict ends the node.
AfterEvictErrorAnyReturns(err) ==
    IF err = EvictionTotalLimitError THEN "return all" ELSE "return"

\* evictPods, lines 450-455, and evictPodsFromSourceNodes, lines 362-368: what
\* follows an error of Evict.
AfterEvictError(err) ==
    IF err = EvictionTotalLimitError THEN "return all"
    ELSE IF err = EvictionNodeLimitError THEN "return"
    ELSE "continue"

\* evictPods, lines 413-456: PodUsage, the call of Evict, and what follows it.
EvictPod ==
    /\ pc = "pods"
    /\ podIdx < Len(inputPods)
    /\ CurrentPodCheck = "evict"
    /\ \E pu \in PodUsages(plugin.clientType, CurrentPod, plugin.resourceNames) :
       \E err \in EvictResultsNow :
          LET singleEviction == pu.err # "nil"
              names == DOMAIN totalAvailableUsage
              missing == {name \in names \ {"pods"} : name \notin DOMAIN pu.usage}
              usage == Subtract(UsageOf(CurrentNode), pu.usage, names)
              total == Subtract(totalAvailableUsage, pu.usage, names)
              continue == continueEvictionCond(plugin.name, usage,
                                               CurrentNode.thresholds.High, total)
          IN /\ evictCalls' = Append(evictCalls,
                                     EvictCall(CurrentNode, CurrentPod, singleEviction, err))
             /\ IF err # "nil"
                  THEN /\ lastStep' = err
                       /\ pc' = CASE AfterEvictError(err) = "return all" -> "done"
                                  [] AfterEvictError(err) = "return" -> "nodes"
                                  [] OTHER -> "pods"
                       /\ podIdx' = podIdx + 1
                       /\ UNCHANGED <<usageClient, totalAvailableUsage>>
                ELSE IF singleEviction
                  THEN /\ lastStep' = "evicted, only a single pod eviction is allowed"
                       /\ pc' = IF AfterEviction(TRUE, TRUE) = "break" THEN "nodes" ELSE "pods"
                       /\ podIdx' = podIdx + 1
                       /\ UNCHANGED <<usageClient, totalAvailableUsage>>
                ELSE IF missing # {}
                  THEN \* line 434 dereferences the nil podUsage[name]: the
                       \* resources the range loop took before are accounted
                       \E accounted \in SUBSET (names \ missing) :
                          /\ usageClient' =
                               [usageClient EXCEPT !.nodeUtilization[CurrentNode.Node.Name] =
                                   Subtract(@, pu.usage, accounted)]
                          /\ totalAvailableUsage' =
                               Subtract(totalAvailableUsage, pu.usage, accounted)
                          /\ lastStep' = "panic: nil pointer dereference"
                          /\ pc' = "panic"
                          /\ podIdx' = podIdx + 1
                ELSE /\ usageClient' =
                          [usageClient EXCEPT !.nodeUtilization[CurrentNode.Node.Name] = usage]
                     /\ totalAvailableUsage' = total
                     /\ lastStep' = "evicted"
                     /\ pc' = IF AfterEviction(FALSE, continue) = "break" THEN "nodes" ELSE "pods"
                     /\ podIdx' = podIdx + 1
    /\ UNCHANGED <<plugin, nodes, apiPods, cancelled, syncEnv, lowNodes, highNodes, srcIdx, inputPods,
                   skipped, status>>
    /\ UNCHANGED <<cvars, nvars, avars, tvars, uvars>>

\* evictPods, lines 456-458: the loop over the pods is over.
EvictPodsReturn ==
    /\ pc = "pods"
    /\ podIdx = Len(inputPods)
    /\ pc' = "nodes"
    /\ lastStep' = "no pod left"
    /\ UNCHANGED <<plugin, nodes, apiPods, cancelled, syncEnv, usageClient, lowNodes, highNodes,
                   totalAvailableUsage, srcIdx, inputPods, podIdx, skipped, evictCalls, status>>
    /\ UNCHANGED <<cvars, nvars, avars, tvars, uvars>>

Next ==
    \/ BalanceSync
    \/ BalanceClassify
    \/ EvictStart
    \/ SourceNode
    \/ SkipTaint
    \/ SkipPreEvictionFilter
    \/ SkipPodUsageError
    \/ EvictPod
    \/ EvictPodsReturn
    \/ BalanceReturn

\* One Balance pass of a plugin.
Spec == Init /\ [][Next]_vars

\* The caller cancels the context it handed to Balance, at any time of the
\* pass.  No line of Balance, evictPodsFromSourceNodes or evictPods reads the
\* context: it is handed on to podEvictor.Evict only, and the usage clients
\* make contexts of their own from context.Background().
Cancel ==
    /\ pc \in {"sync", "classify", "headroom", "nodes", "pods"}
    /\ ~cancelled
    /\ cancelled' = TRUE
    /\ UNCHANGED <<plugin, nodes, apiPods, syncEnv, usageClient, lowNodes, highNodes,
                   totalAvailableUsage, srcIdx, inputPods, podIdx, skipped, evictCalls,
                   lastStep, status, pc>>
    /\ UNCHANGED <<cvars, nvars, avars, tvars, uvars>>

NextCancel ==
    \/ Next
    \/ Cancel

\* One Balance pass of a plugin whose context may be cancelled.
SpecCancel == Init /\ [][NextCancel]_vars

\* evictPodsFromSourceNodes is called with a destination node whose Usage
\* lacks a resource in scope, the case its lines 328-331 test for.  No usage
\* client of the package leaves such a usage when Sync returned nil, so a pass
\* of Spec never makes this call.
UsageLacksResource ==
    /\ pc = "headroom"
    /\ \A i \in DOMAIN DestinationNodes :
          plugin.resourceNames \subseteq DOMAIN UsageOf(DestinationNodes[i])
    /\ \E i \in DOMAIN DestinationNodes : \E name \in plugin.resourceNames :
          usageClient' =
              [usageClient EXCEPT !.nodeUtilization[DestinationNodes[i].Node.Name] =
                  Without(@, name)]
    /\ UNCHANGED <<plugin, nodes, apiPods, syncEnv, cancelled, lowNodes, highNodes,
                   totalAvailableUsage, srcIdx, inputPods, podIdx, skipped, evictCalls,
                   lastStep, status, pc>>
    /\ UNCHANGED <<cvars, nvars, avars, tvars, uvars>>

NextMissing ==
    \/ Next
    \/ UsageLacksResource

\* One Balance pass in which the usage of a destination node may lack a
\* resource when evictPodsFromSourceNodes is called.
SpecMissing == Init /\ [][NextMissing]_vars

-----------------------------------------------------------------------------
(* Properties of the classifier.                                            *)

\* The buckets that hold key k.
BucketsOf(k) == {i \in 1..Len(cResult.buckets) : k \in DOMAIN cResult.buckets[i]}

\* The position of the first classifier that returned true for key k, 0 for none.
FirstMatch(k) ==
    IF k \in DOMAIN cCalls /\ \E i \in 1..Len(cCalls[k]) : cCalls[k][i].done
      THEN CHOOSE i \in 1..Len(cCalls[k]) :
               cCalls[k][i].done /\ \A j \in 1..(i - 1) : ~cCalls[k][j].done
      ELSE 0

\* C1: Classify stores a value only in the bucket of the first classifier that
\* returned true for it, and in no bucket if none did; a result has exactly one
\* bucket per classifier.
C1_FirstMatchOnly ==
    ~cResult.isNil =>
        /\ Len(cResult.buckets) = Len(cClassifiers)
        /\ \A k \in Keys :
              /\ BucketsOf(k) = IF FirstMatch(k) = 0 THEN {} ELSE {FirstMatch(k)}
              /\ \A i \in BucketsOf(k) : k \in DOMAIN cValues /\ cResult.buckets[i][k] = cValues[k]

\* C1 witness: a returned result where a value that both classifiers match sits
\* in the first bucket only, and another value sits in no bucket.
C1_Witness ==
    /\ cPc = "done" /\ cErr = "nil" /\ Len(cClassifiers) = 2
    /\ \E k \in DOMAIN cValues :
          /\ BucketsOf(k) = {1}
          /\ ClassifierOutcomes(cClassifiers[2], cValues[k], cLimits[k][2])
                = {[done |-> TRUE, err |-> "nil"]}
    /\ \E k \in DOMAIN cValues : BucketsOf(k) = {} /\ Len(cCalls[k]) = 2

AllBelow(cmp, data, limit) ==
    \A r \in DOMAIN data : r \in DOMAIN limit /\ Compare(cmp, data[r], limit[r]) < 0

\* C3: a classifier made by ForMap returns true exactly when the comparer is
\* negative for every key of the candidate; with the pair (below low, above
\* high) a value that has one key not below low and one key not above high is
\* in neither bucket.
C3_ForMapAllBelow ==
    /\ \A k \in DOMAIN cCalls : \A i \in 1..Len(cCalls[k]) :
          cCalls[k][i].done <=> AllBelow(cClassifiers[i], cValues[k], cLimits[k][i])
    /\ (cPc = "done" /\ cErr = "nil"
            /\ cClassifiers = <<"usage.Cmp(limit)", "limit.Cmp(usage)">>)
       => \A k \in (DOMAIN cValues) \cap (DOMAIN cLimits) :
             LET v == cValues[k]  low == cLimits[k][1]  high == cLimits[k][2] IN
             ((\E r \in DOMAIN v : v[r] >= low[r]) /\ (\E r \in DOMAIN v : v[r] <= high[r]))
             => BucketsOf(k) = {}

\* C3 witness: under the pair (below, above) a value with cpu below and memory
\* above its limit, and a value equal to its limit, were each offered to both
\* classifiers and are in neither bucket.
C3_Witness ==
    /\ cPc = "done" /\ cErr = "nil"
    /\ cClassifiers = <<"usage.Cmp(limit)", "limit.Cmp(usage)">>
    /\ \E k1, k2 \in DOMAIN cValues :
          /\ cValues[k1] = [r \in CResources |-> IF r = "cpu" THEN 0 ELSE 2]
          /\ cValues[k2] = [r \in CResources |-> 1]
          /\ Len(cCalls[k1]) = 2 /\ Len(cCalls[k2]) = 2
          /\ BucketsOf(k1) = {} /\ BucketsOf(k2) = {}

\* C4: a classifier made by ForMap returns an error for every candidate that has
\* a key with no limit, in whichever order the keys are visited.
C4_MissingLimitAlwaysFails ==
    \A k \in DOMAIN cCalls : \A i \in 1..Len(cCalls[k]) :
        (\E r \in DOMAIN cValues[k] : r \notin DOMAIN cLimits[k][i])
        => cCalls[k][i].err # "nil"

-----------------------------------------------------------------------------
(* Properties of a Balance pass.                                            *)

\* The names of the nodes handed to Balance.
NamesOfNodes == {nodes[i].Name : i \in DOMAIN nodes}

\* The last Sync failed: it left the client without an entry for some node.
SyncFailedForSomeNode ==
    /\ pc # "sync"
    /\ \E name \in NamesOfNodes : name \notin DOMAIN usageClient.nodeUtilization

\* C5: if Sync returns an error, the pass of either plugin ends with that
\* error in its status, and Evict is not called.
C5_SyncErrorEndsPass ==
    SyncFailedForSomeNode =>
        /\ pc = "done"
        /\ status.Err # "nil"
        /\ status.cause # "nil"
        /\ evictCalls = <<>>

\* A sample of value 1.2 made Sync fail, and the pass ended with that error.
C5_Witness ==
    /\ SyncFailedForSomeNode
    /\ pc = "done"
    /\ status.cause = "The collected metrics sample has value outside of <0; 1> interval"
    /\ evictCalls = <<>>

\* The nodes were classified: the pass is past the guards, or ended there.
Classified ==
    \/ pc \in {"headroom", "nodes", "pods", "panic"}
    \/ pc = "done" /\ lastStep # "sync failed"

\* One of the four guards holds of the classified nodes.
Guarded ==
    \/ Len(lowNodes) = 0
    \/ Len(lowNodes) <= plugin.args.NumberOfNodes
    \/ Len(lowNodes) = Len(nodes)
    \/ Len(highNodes) = 0

\* C6: when, after classification, lowNodes is empty, or has at most
\* NumberOfNodes nodes, or has every node, or highNodes is empty, the pass
\* ends without an error and without a call of Evict.
C6_GuardsEndPass ==
    (Classified /\ Guarded) =>
        /\ pc = "done"
        /\ status = NilStatus
        /\ evictCalls = <<>>

\* A pass ended because its one underutilized node is no more than
\* NumberOfNodes, with a node to evict from.
C6_Witness ==
    /\ Classified /\ pc = "done" /\ status = NilStatus /\ evictCalls = <<>>
    /\ Len(lowNodes) = 1 /\ plugin.args.NumberOfNodes = 1
    /\ Len(lowNodes) < Len(nodes) /\ Len(highNodes) > 0

\* The continuation predicate of the plugin, for a usage of the source node,
\* its high thresholds and a headroom.
MayContinue(usage, high, total) ==
    /\ \A name \in DOMAIN total : total[name] > 0
    /\ plugin.name = LowNodeUtilizationPluginName =>
          \E name \in DOMAIN usage : usage[name] > high[name]

\* C7: at every call of Evict every headroom is above zero and, in
\* LowNodeUtilization, some resource of the source node is above its high
\* threshold; and the loop over the pods of a node goes on only while that
\* holds.
C7_EvictOnlyWhileContinue ==
    /\ \A i \in DOMAIN evictCalls :
          MayContinue(evictCalls[i].usage, evictCalls[i].high,
                      evictCalls[i].totalAvailableUsage)
    /\ pc = "pods" =>
          MayContinue(UsageOf(CurrentNode), CurrentNode.thresholds.High,
                      totalAvailableUsage)

\* Evict was called for a second pod of a node after the usage of the first
\* was taken off, and the eviction of the second made the predicate false
\* with a pod of the node left.
C7_Witness ==
    /\ Len(evictCalls) >= 2
    /\ LET last == evictCalls[Len(evictCalls)]
           before == evictCalls[Len(evictCalls) - 1]
       IN /\ last.node = before.node
          /\ last.usage # before.usage
          /\ last.err = "nil" /\ ~last.singleEviction
    /\ lastStep = "evicted" /\ pc = "nodes"
    /\ podIdx < Len(inputPods)
    /\ ~MayContinue(UsageOf(CurrentNode), CurrentNode.thresholds.High, totalAvailableUsage)

\* C8: when PodUsage is not supported, at most one call of Evict per source
\* node succeeds.
C8_SingleEvictionPerNode ==
    /\ plugin.clientType = PrometheusUsageClientType =>
          \A i \in DOMAIN evictCalls : evictCalls[i].singleEviction
    /\ \A i, j \in DOMAIN evictCalls :
          (/\ i < j
           /\ evictCalls[i].node = evictCalls[j].node
           /\ evictCalls[i].singleEviction
           /\ evictCalls[j].singleEviction)
          => ~(evictCalls[i].err = "nil" /\ evictCalls[j].err = "nil")

\* With a prometheus query, a pod of a node was evicted after Evict failed for
\* another, and the loop left the node with a pod to go.
C8_Witness ==
    /\ plugin.clientType = PrometheusUsageClientType
    /\ Len(evictCalls) >= 2
    /\ LET last == evictCalls[Len(evictCalls)]
           before == evictCalls[Len(evictCalls) - 1]
       IN /\ last.node = before.node
          /\ before.err = "error"
          /\ last.err = "nil" /\ last.singleEviction
    /\ pc = "nodes"
    /\ podIdx < Len(inputPods)

\* C9: no call of Evict follows one that returned EvictionTotalLimitError,
\* and the pass is over.
C9_TotalLimitEndsPass ==
    \A i \in DOMAIN evictCalls :
        evictCalls[i].err = EvictionTotalLimitError =>
            /\ i = Len(evictCalls)
            /\ pc = "done"

\* Evict returned EvictionTotalLimitError with a pod of the node and a source
\* node left.
C9_Witness ==
    /\ evictCalls # <<>>
    /\ evictCalls[Len(evictCalls)].err = EvictionTotalLimitError
    /\ pc = "done"
    /\ podIdx < Len(inputPods)
    /\ srcIdx < Len(SourceNodes)
    /\ classifyPods(AllPodsOf(SourceNodes[srcIdx + 1])) # <<>>

\* The place of a node in the source nodes.
SourceIndex(name) == CHOOSE i \in DOMAIN SourceNodes : SourceNodes[i].Node.Name = name

\* C10: after Evict returned EvictionNodeLimitError no pod of that node is
\* passed to Evict; the loop is at the source nodes again, and the calls that
\* follow are for later source nodes.
C10_NodeLimitEndsNode ==
    /\ \A i, j \in DOMAIN evictCalls :
          (i < j /\ evictCalls[i].err = EvictionNodeLimitError) =>
              SourceIndex(evictCalls[i].node) < SourceIndex(evictCalls[j].node)
    /\ lastStep = EvictionNodeLimitError =>
          /\ pc = "nodes"
          /\ evictCalls[Len(evictCalls)].node = CurrentNode.Node.Name

\* Evict returned EvictionNodeLimitError for a node with a pod left, and
\* was then called for a pod of the next source node.
C10_Witness ==
    /\ Len(evictCalls) >= 2
    /\ LET last == evictCalls[Len(evictCalls)]
           before == evictCalls[Len(evictCalls) - 1]
       IN /\ before.err = EvictionNodeLimitError
          /\ SourceIndex(last.node) = SourceIndex(before.node) + 1
          /\ Len(classifyPods(AllPodsOf(SourceNodes[SourceIndex(before.node)]))) > 1
    /\ Len(evictCalls) = 2
    /\ skipped = 0


\* C11: a failure that is no limit error skips the current pod only. The step
\* in which PodUsage fails with another error than NotSupportedError calls
\* Evict for no pod, and the step in which Evict fails with another error than
\* the two limit errors evicts none; both leave the usage of the source node
\* and the headroom as they were and go on with the next pod of the same node.
C11_OtherErrorsSkipOnePod ==
    [][LET podUsageFailed == lastStep' = "unable to get pod usage"
           evictFailed == /\ Len(evictCalls') = Len(evictCalls) + 1
                          /\ evictCalls'[Len(evictCalls')].err = "error"
       IN /\ podUsageFailed => evictCalls' = evictCalls
          /\ evictFailed => evictCalls'[Len(evictCalls')].pod = CurrentPod.Name
          /\ (podUsageFailed \/ evictFailed) =>
                /\ usageClient' = usageClient
                /\ totalAvailableUsage' = totalAvailableUsage
                /\ pc' = "pods"
                /\ srcIdx' = srcIdx /\ inputPods' = inputPods
                /\ podIdx' = podIdx + 1]_vars

\* Evict failed with another error for the first pod of a node, PodUsage for
\* the second, and a third pod of the node is left to attempt.
C11_Witness ==
    /\ pc = "pods"
    /\ lastStep = "unable to get pod usage"
    /\ Len(evictCalls) = 1 /\ evictCalls[1].err = "error"
    /\ podIdx = 2 /\ podIdx < Len(inputPods)

\* C12: Sync is transactional. After a Sync of any of the three clients that
\* returned an error, NodeUtilization and Pods have an entry for no node.
C12_SyncTransactional ==
    lastStep = "sync failed" =>
        /\ DOMAIN usageClient.nodeUtilization = {}
        /\ DOMAIN usageClient.pods = {}

\* The reply to the prometheus query is one of the four cases in which Sync is
\* to fail: it is no vector, a sample has no instance label, a sample's value
\* is below 0 or above 1, or a node handed to Sync has no sample.
PrometheusReplyIsBad ==
    LET q == syncEnv.query
    IN \/ q.type # "vector"
       \/ \E j \in DOMAIN q.samples : q.samples[j].instance = ""
       \/ \E j \in DOMAIN q.samples :
             q.samples[j].value < 0 \/ q.samples[j].value > SampleScale
       \/ \E name \in NamesOfNodes :
             \A j \in DOMAIN q.samples : q.samples[j].instance # name

\* C13: PrometheusUsageClient.Sync returns an error when the query result is
\* no vector, when a sample has no instance label, when a sample's value is
\* below 0 or above 1, and when a node has no sample; and it stores usage only
\* when none of these is the case.
C13_PrometheusSyncFails ==
    (pc # "sync" /\ plugin.clientType = PrometheusUsageClientType
                 /\ PrometheusReplyIsBad) =>
        /\ status.cause # "nil"
        /\ DOMAIN usageClient.nodeUtilization = {}

\* The usage the metrics collector returned lacks a node handed to Sync, or a
\* resource of resourceNames other than pods for such a node.
CollectedMetricsLack ==
    \E name \in NamesOfNodes :
        \/ name \notin DOMAIN syncEnv.metrics
        \/ \E r \in plugin.resourceNames \ {"pods"} : r \notin DOMAIN syncEnv.metrics[name]

\* C14: ActualUsageClient.Sync returns an error if the collected metrics have
\* no entry for a node or lack a resource of resourceNames for it, pods being
\* set by Sync itself; after a Sync that returned no error the usage of every
\* node has an entry for every resource of resourceNames.
C14_ActualSyncNeedsEveryResource ==
    (pc # "sync" /\ plugin.clientType = ActualUsageClientType) =>
        /\ CollectedMetricsLack => status.cause # "nil"
        /\ status.cause = "nil" =>
              \A name \in NamesOfNodes :
                  /\ name \in DOMAIN usageClient.nodeUtilization
                  /\ plugin.resourceNames \subseteq DOMAIN usageClient.nodeUtilization[name]

\* Sync failed because the collected usage of the second node lacks memory.
C14_Witness ==
    /\ pc = "done" /\ plugin.clientType = ActualUsageClientType
    /\ "n2" \in DOMAIN syncEnv.metrics
    /\ "memory" \notin DOMAIN syncEnv.metrics["n2"]
    /\ status.cause = "unable to find resource for collected node metric"

\* C15: once the context of the pass is cancelled, Sync, if still to be
\* called, returns an error, and Evict is called for no further pod.
C15_CancelEndsLoop ==
    [][cancelled =>
          /\ evictCalls' = evictCalls
          /\ pc = "sync" => status'.cause # "nil"]_vars

\* The pod of the given name on the given node, as the cluster lists it.
PodNamed(node, name) ==
    apiPods[node][CHOOSE i \in DOMAIN apiPods[node] : apiPods[node][i].Name = name]

\* The pod filter accepts the pod, the pod tolerates the taints of the
\* destination nodes, the pre-eviction filter accepts it, and its namespace
\* is not among EvictableNamespaces.Exclude.
MayBeEvicted(pod) ==
    /\ pod.Evictable
    /\ \A i \in DOMAIN DestinationNodes :
          DestinationNodes[i].Node.Taints \subseteq pod.Tolerations
    /\ pod.PreEviction
    /\ ~plugin.args.EvictableNamespaces.isNil =>
          pod.Namespace \notin plugin.args.EvictableNamespaces.Exclude

\* C16: every pod handed to Evict was accepted by the pod filter, tolerates
\* the taints of the destination nodes, was accepted by the pre-eviction
\* filter and is of no excluded namespace; and a step of the loop of evictPods
\* at a pod that fails one of these calls Evict for no pod and leaves the
\* usage of the source node and the headroom as they were.
C16_OnlyCheckedPodsEvicted ==
    [][/\ \A i \in DOMAIN evictCalls' :
             MayBeEvicted(PodNamed(evictCalls'[i].node, evictCalls'[i].pod))
       /\ (pc = "pods" /\ podIdx < Len(inputPods) /\ ~MayBeEvicted(CurrentPod)) =>
             /\ evictCalls' = evictCalls
             /\ usageClient' = usageClient
             /\ totalAvailableUsage' = totalAvailableUsage
             /\ podIdx' = podIdx + 1]_vars

\* Of the four removable pods of a node one was evicted; the loop skipped the
\* one that tolerates no taint, the one the pre-eviction filter rejects and
\* the one of the excluded namespace.
C16_Witness ==
    /\ Len(inputPods) = 4 /\ podIdx = 4
    /\ Len(evictCalls) = 1 /\ evictCalls[1].pod = "a1" /\ evictCalls[1].err = "nil"
    /\ ~plugin.args.EvictableNamespaces.isNil
    /\ \E i \in DOMAIN DestinationNodes : DestinationNodes[i].Node.Taints # {}

\* The thresholds of the classified nodes, each with the capacity of its node.
ClassifiedThresholds ==
    {[Low |-> lowNodes[i].thresholds.Low, High |-> lowNodes[i].thresholds.High,
      Capacity |-> NodeCapacity(plugin.clientType, lowNodes[i].Node)] :
        i \in DOMAIN lowNodes}
    \cup
    {[Low |-> highNodes[i].thresholds.Low, High |-> highNodes[i].thresholds.High,
      Capacity |-> NodeCapacity(plugin.clientType, highNodes[i].Node)] :
        i \in DOMAIN highNodes}

\* C17: for every node and every resource in scope, with the thresholds as
\* they are or as deviations and whatever percentages between 0 and 100 are
\* configured, the thresholds of the node satisfy 0 <= low <= high <= capacity.
C17_ThresholdsOrdered ==
    \A t \in ClassifiedThresholds : \A r \in plugin.resourceNames :
        /\ 0 <= t.Low[r]
        /\ t.Low[r] <= t.High[r]
        /\ t.High[r] <= Get(t.Capacity, r)

\* The thresholds of some resource are above its target thresholds.
ThresholdsInverted ==
    \E r \in DOMAIN plugin.args.Thresholds :
        plugin.args.Thresholds[r] > plugin.targetThresholds[r]

\* C18: in LowNodeUtilization, when the threshold of some resource is above
\* its target threshold, no node is classified as underutilized or as
\* overutilized and the pass evicts nothing.
C18_InvertedThresholdsMatchNoNode ==
    (plugin.name = LowNodeUtilizationPluginName /\ ThresholdsInverted) =>
        /\ lowNodes = <<>>
        /\ highNodes = <<>>
        /\ evictCalls = <<>>

\* C19: once evictPodsFromSourceNodes has computed the headroom, no step of
\* the pass raises the headroom of any resource.
C19_HeadroomNeverRises ==
    [][(pc = "nodes" \/ pc = "pods") =>
          /\ DOMAIN totalAvailableUsage' = DOMAIN totalAvailableUsage
          /\ \A r \in DOMAIN totalAvailableUsage :
                totalAvailableUsage[r] >= totalAvailableUsage'[r]]_vars

\* An eviction has lowered the headroom of cpu and of pods below what it was
\* when Evict was called.
C19_Witness ==
    /\ lastStep = "evicted"
    /\ LET call == evictCalls[Len(evictCalls)]
       IN /\ totalAvailableUsage["cpu"] < call.totalAvailableUsage["cpu"]
          /\ totalAvailableUsage["pods"] < call.totalAvailableUsage["pods"]

\* Usage a comes no later than usage b in the order of the source nodes: its
\* sum, milli-cpus plus the units of every other resource, is no smaller in
\* LowNodeUtilization and no larger in HighNodeUtilization.
UsageInOrder(a, b) ==
    IF plugin.name = LowNodeUtilizationPluginName
      THEN SumMap(a) >= SumMap(b)
      ELSE SumMap(a) <= SumMap(b)

\* The usage the source node had when Evict was first called for a pod of it.
UsageAtFirstCall(name) ==
    evictCalls[CHOOSE i \in DOMAIN evictCalls :
                   /\ evictCalls[i].node = name
                   /\ \A j \in 1..(i - 1) : evictCalls[j].node # name].usage

\* Pod a comes no later than pod b in the order of the pods of a node: its
\* priority is lower, or equal with a QoS class no less tolerant to eviction.
PodInOrder(a, b) ==
    \/ a.Priority < b.Priority
    \/ a.Priority = b.Priority /\ QoSRank(a.QoS) <= QoSRank(b.QoS)

\* C20: the calls of Evict of a pass are made one after the other, all those
\* for one source node before any for the next; the source nodes are taken in
\* the order of their summed usage, descending in LowNodeUtilization and
\* ascending in HighNodeUtilization; and the pods of a node are attempted in
\* ascending priority, pods of equal priority in the order of their QoS class.
C20_EvictionsOrdered ==
    /\ pc = "headroom" =>
          \A i, j \in DOMAIN SourceNodes :
              i < j => UsageInOrder(UsageOf(SourceNodes[i]), UsageOf(SourceNodes[j]))
    /\ \A i, j \in DOMAIN evictCalls :
          i < j =>
              LET a == evictCalls[i]
                  b == evictCalls[j]
              IN /\ SourceIndex(a.node) <= SourceIndex(b.node)
                 /\ a.node # b.node =>
                       UsageInOrder(UsageAtFirstCall(a.node), UsageAtFirstCall(b.node))
                 /\ a.node = b.node =>
                       PodInOrder(PodNamed(a.node, a.pod), PodNamed(b.node, b.pod))

\* Evict was called for two pods of different priority of one source node and
\* then for a pod of the next source node, whose summed usage differs.
C20_Witness ==
    /\ Len(evictCalls) = 3
    /\ evictCalls[1].node = evictCalls[2].node
    /\ PodNamed(evictCalls[1].node, evictCalls[1].pod).Priority
           < PodNamed(evictCalls[2].node, evictCalls[2].pod).Priority
    /\ evictCalls[3].node # evictCalls[1].node
    /\ SumMap(UsageAtFirstCall(evictCalls[1].node)) # SumMap(UsageAtFirstCall(evictCalls[3].node))

-----------------------------------------------------------------------------
(* NewLowNodeUtilization.                                                   *)

\* C21: a call of NewLowNodeUtilization with a prometheus query returns an
\* error and no plugin unless the thresholds and the target thresholds each
\* have exactly the one resource MetricResource.
C21_QueryNeedsMetricResourceOnly ==
    (/\ nPc = "done"
     /\ nArgs.PrometheusQuery
     /\ ~(/\ DOMAIN nArgs.Thresholds = {MetricResource}
          /\ DOMAIN nArgs.TargetThresholds = {MetricResource}))
        => nErr # "nil" /\ nPlugin = NoPlugin

\* The thresholds are as a query needs them, the target thresholds name a
\* second resource, and the call returned an error.
C21_Witness ==
    /\ nPc = "done"
    /\ nArgs.PrometheusQuery
    /\ DOMAIN nArgs.Thresholds = {MetricResource}
    /\ DOMAIN nArgs.TargetThresholds = {MetricResource, "cpu"}
    /\ nHandle.PrometheusClient /\ ~nArgs.MetricsServer
    /\ nErr # "nil"

\* C22: a plugin that NewLowNodeUtilization built from arguments with a
\* prometheus query uses the prometheus usage client.
C22_QuerySelectsPrometheusClient ==
    (nPc = "done" /\ nArgs.PrometheusQuery /\ nErr = "nil")
        => nPlugin.clientType = PrometheusUsageClientType

\* C23: a plugin that NewLowNodeUtilization built without a prometheus query
\* has, for each basic resource, the thresholds and the target thresholds of
\* the arguments where these have one, and otherwise 100, or 0 with deviation
\* thresholds.
C23_DefaultsPerMap ==
    (nPc = "done" /\ ~nArgs.PrometheusQuery /\ nErr = "nil")
        => \A r \in BasicResources :
              LET default == IF nArgs.UseDeviationThresholds
                               THEN MinResourcePercentage ELSE MaxResourcePercentage
                  expected(t) == IF r \in DOMAIN t THEN t[r] ELSE default
              IN /\ r \in DOMAIN nPlugin.args.Thresholds
                 /\ r \in DOMAIN nPlugin.targetThresholds
                 /\ nPlugin.args.Thresholds[r] = expected(nArgs.Thresholds)
                 /\ nPlugin.targetThresholds[r] = expected(nArgs.TargetThresholds)

-----------------------------------------------------------------------------
(* Normalize and Average.                                                   *)

\* values[k][j], zero where the inner map of k has no j.
ValueAt(values, k, j) ==
    IF k \in DOMAIN values /\ j \in DOMAIN values[k] THEN values[k][j] ELSE Pct(0)

\* C24: Average returns an entry for every inner key of its input and no
\* other; the entry of j is the sum of values[k][j] over the outer keys k
\* divided by the number of all outer keys.  For an empty input the result is
\* empty.
C24_AverageDividesByOuterKeys ==
    aPc = "done" =>
        /\ DOMAIN aAverage = UNION {DOMAIN aNormalized[k] : k \in DOMAIN aNormalized}
        /\ \A j \in DOMAIN aAverage :
              LET sum == PctAdd(PctAdd(ValueAt(aNormalized, "n1", j),
                                       ValueAt(aNormalized, "n2", j)),
                                ValueAt(aNormalized, "n3", j))
              IN aAverage[j] = PctReduce(sum.n, sum.d * Cardinality(DOMAIN aNormalized))

\* Average was given three inner maps of which only one has memory.
C24_Witness ==
    /\ aPc = "done"
    /\ Cardinality(DOMAIN aNormalized) = 3
    /\ Cardinality({k \in DOMAIN aNormalized : "memory" \in DOMAIN aNormalized[k]}) = 1
    /\ "memory" \in DOMAIN aAverage
    /\ aAverage["memory"] # Pct(0)

\* The nodes of a call of Normalize: the keys of usages that totals has.
NormalizedNodes == (DOMAIN aUsages) \cap (DOMAIN aTotals)

\* All nodes have the same capacity.
SameCapacity == \A k1, k2 \in NormalizedNodes : aTotals[k1] = aTotals[k2]

\* No node uses more of a resource than its capacity.
WithinCapacity ==
    \A k \in NormalizedNodes : \A r \in DOMAIN aUsages[k] :
        0 <= aUsages[k][r] /\ aUsages[k][r] <= aTotals[k][r]

\* Per resource some node uses: 100 * (sum of usage) / (sum of capacity).
DirectAverage ==
    [r \in UNION {DOMAIN aUsages[k] : k \in NormalizedNodes} |->
        PctReduce(100 * SumMap([k \in NormalizedNodes |-> Get(aUsages[k], r)]),
                  SumMap([k \in NormalizedNodes |-> aTotals[k][r]]))]

\* C25 as stated: for nodes of the same capacity, Normalize has one entry per
\* node and the Average of it is the direct average.
C25_AverageOfNormalizedIsDirect ==
    (aPc = "done" /\ SameCapacity) =>
        /\ DOMAIN aNormalized = NormalizedNodes
        /\ aAverage = DirectAverage

\* C25: for nodes of the same capacity none of which uses more of a resource
\* than its capacity, Normalize has one entry per node and the Average of it
\* is the direct average.
C25_AverageOfNormalizedIsDirectWithinCapacity ==
    (aPc = "done" /\ SameCapacity /\ WithinCapacity) =>
        /\ DOMAIN aNormalized = NormalizedNodes
        /\ aAverage = DirectAverage

\* Three nodes of the same capacity and different usages within it, one of
\* them without memory, and a key of usages that totals lacks.
C25_Witness ==
    /\ aPc = "done" /\ SameCapacity /\ WithinCapacity
    /\ Cardinality(NormalizedNodes) = 2
    /\ Cardinality(DOMAIN aUsages) = 3
    /\ \E k1, k2 \in NormalizedNodes :
          /\ "cpu" \in DOMAIN aUsages[k1] /\ "cpu" \in DOMAIN aUsages[k2]
          /\ aUsages[k1]["cpu"] # aUsages[k2]["cpu"]
          /\ "memory" \in DOMAIN aUsages[k1] /\ "memory" \notin DOMAIN aUsages[k2]

-----------------------------------------------------------------------------
(* PrometheusUsageClient.                                                   *)

\* C26: after a Sync of the prometheus client that returned no error, the
\* usage of every node handed to it has the one key MetricResource, its value
\* is the value of the node's sample times 100 without its fraction, within 0
\* and 100, and the capacity of the node is 100 of MetricResource.
C26_PrometheusUsageIsPercent ==
    (pc = "classify" /\ plugin.clientType = PrometheusUsageClientType) =>
        \A i \in DOMAIN nodes :
            LET name == nodes[i].Name
                usage == usageClient.nodeUtilization[name]
                u == usage[MetricResource]
            IN /\ name \in DOMAIN usageClient.nodeUtilization
               /\ DOMAIN usage = {MetricResource}
               /\ \E j \in DOMAIN syncEnv.query.samples :
                     LET sample == syncEnv.query.samples[j]
                     IN /\ sample.instance = name
                        /\ ~sample.nan
                        /\ u * SampleScale <= sample.value * 100
                        /\ sample.value * 100 < (u + 1) * SampleScale
               /\ 0 <= u /\ u <= 100
               /\ NodeCapacity(plugin.clientType, nodes[i]) = [r \in {MetricResource} |-> 100]

-----------------------------------------------------------------------------
(* The accounting of an eviction.                                           *)

\* The step is a call of Evict that returned no error, for a pod of which
\* PodUsage returned the usage.
EvictedWithUsage ==
    /\ pc = "pods"
    /\ Len(evictCalls') = Len(evictCalls) + 1
    /\ evictCalls'[Len(evictCalls')].err = "nil"
    /\ ~evictCalls'[Len(evictCalls')].singleEviction

\* The step takes from the usage of the source node and from the headroom, for
\* every resource of the headroom, one if the resource is pods and otherwise
\* what podUsage has for the resource.
AccountedFor(podUsage) ==
    \A name \in DOMAIN totalAvailableUsage :
        /\ name = "pods" \/ name \in DOMAIN podUsage
        /\ LET amount == IF name = "pods" THEN 1 ELSE podUsage[name]
               node == CurrentNode.Node.Name
           IN /\ usageClient'.nodeUtilization[node][name] =
                     usageClient.nodeUtilization[node][name] - amount
              /\ totalAvailableUsage'[name] = totalAvailableUsage[name] - amount

\* C27: an eviction that succeeded, of a pod of which PodUsage returned the
\* usage, takes from the usage of the source node and from the headroom the
\* same amount for every resource of the headroom: one for pods, the usage of
\* the pod otherwise.
C27_EvictionAccounted ==
    [][EvictedWithUsage =>
          \E pu \in PodUsages(plugin.clientType, CurrentPod, plugin.resourceNames) :
              pu.err = "nil" /\ AccountedFor(pu.usage)]_vars

\* The step is a call of Evict that returned no error, for a pod of which
\* PodUsage is not supported.
EvictedSingle ==
    /\ pc = "pods"
    /\ Len(evictCalls') = Len(evictCalls) + 1
    /\ evictCalls'[Len(evictCalls')].err = "nil"
    /\ evictCalls'[Len(evictCalls')].singleEviction

-----------------------------------------------------------------------------
(* The headroom.                                                            *)

\* No eviction was accounted for yet.
NothingAccounted ==
    \A i \in DOMAIN evictCalls : evictCalls[i].err # "nil" \/ evictCalls[i].singleEviction

\* C29: as long as no eviction was accounted for, the headroom of every
\* resource in scope is the sum, over the underutilized nodes in
\* LowNodeUtilization and over the other schedulable nodes in
\* HighNodeUtilization, of the high threshold less the usage.
C29_HeadroomIsSumOverDestinations ==
    ((pc = "nodes" \/ pc = "pods") /\ NothingAccounted) =>
        LET dest == IF plugin.name = LowNodeUtilizationPluginName
                      THEN lowNodes ELSE highNodes
        IN /\ DOMAIN totalAvailableUsage = plugin.resourceNames
           /\ \A name \in plugin.resourceNames :
                 totalAvailableUsage[name] =
                     SumSeq([i \in DOMAIN dest |-> dest[i].thresholds.High[name]])
                     - SumSeq([i \in DOMAIN dest |->
                                  usageClient.nodeUtilization[dest[i].Node.Name][name]])

\* The headroom of two destination nodes of different usage was computed, and
\* there is some for a resource.
C29_Witness ==
    /\ pc = "nodes" /\ lastStep = "total capacity to be moved"
    /\ Len(DestinationNodes) = 2
    /\ UsageOf(DestinationNodes[1]) # UsageOf(DestinationNodes[2])
    /\ \E name \in DOMAIN totalAvailableUsage : totalAvailableUsage[name] > 0

\* The usage of a destination node lacks a resource in scope.
DestinationLacksResource ==
    \E i \in DOMAIN DestinationNodes : \E name \in plugin.resourceNames :
        name \notin DOMAIN UsageOf(DestinationNodes[i])

\* C30: when the usage of a destination node lacks a resource in scope,
\* evictPodsFromSourceNodes returns without a call of Evict.
C30_MissingUsageEndsPass ==
    ((pc = "nodes" \/ pc = "pods" \/ pc = "done" \/ pc = "panic")
        /\ DestinationLacksResource) =>
            pc = "done" /\ evictCalls = <<>>

\* The pass ended because the usage of a destination node lacks a resource,
\* and the first source node has a pod that may be evicted.
C30_Witness ==
    /\ pc = "done" /\ DestinationLacksResource
    /\ lastStep = "unable to find resource in node's usage"
    /\ SourceNodes # <<>>
    /\ \E i \in DOMAIN AllPodsOf(SourceNodes[1]) :
          MayBeEvicted(AllPodsOf(SourceNodes[1])[i])

\* What the evictions of the pass that succeeded moved of a resource: the
\* usage of the evicted pods of which PodUsage returned the usage, their
\* number for pods.
MovedByEvictions(name) ==
    SumSeq([i \in DOMAIN evictCalls |->
               IF evictCalls[i].err # "nil" \/ evictCalls[i].singleEviction THEN 0
               ELSE IF name = "pods" THEN 1
               ELSE Get(PodNamed(evictCalls[i].node, evictCalls[i].pod).Requests, name)])

\* C31: what the evictions of a pass moved of a resource in scope is never
\* more than the headroom of the resource before the first eviction.
C31_HeadroomBoundsEvictions ==
    (evictCalls # <<>>) =>
        \A name \in DOMAIN evictCalls[1].totalAvailableUsage :
            MovedByEvictions(name) <= evictCalls[1].totalAvailableUsage[name]

\* The thresholds of every node of the pass by the name of the node, as
\* Balance has them computed from the arguments of the plugin.
ThresholdsOfPass ==
    process(plugin.clientType,
            [nodes |-> nodes, lowThreshold |-> plugin.args.Thresholds,
             highThreshold |-> plugin.targetThresholds,
             resourceNames |-> plugin.resourceNames,
             useDeviationThresholds |-> plugin.args.UseDeviationThresholds],
            usageClient.nodeUtilization)

\* The nodes were classified and no pod was passed to Evict yet: the usage of
\* the nodes is the usage they were classified by.
ClassifiedOnly == Classified /\ evictCalls = <<>>

\* No resource of the usage of the node named n is above its low threshold.
MeasuredLow(n) ==
    \A r \in DOMAIN usageClient.nodeUtilization[n] :
        usageClient.nodeUtilization[n][r] <= ThresholdsOfPass[n].Low[r]

\* Some resource of the usage of the node named n is above its high threshold.
MeasuredHigh(n) ==
    \E r \in DOMAIN usageClient.nodeUtilization[n] :
        usageClient.nodeUtilization[n][r] > ThresholdsOfPass[n].High[r]

\* The names of the schedulable nodes of the pass.
SchedulableNames == {nodes[i].Name : i \in {j \in DOMAIN nodes : ~nodes[j].Unschedulable}}

\* The names of the nodes of a sequence of classified nodes.
NamesIn(infos) == {infos[i].Node.Name : i \in DOMAIN infos}

\* C32: in LowNodeUtilization lowNodes holds, once each, the schedulable nodes
\* of which no measured resource is above its low threshold, and highNodes
\* holds, once each, the nodes, schedulable or not, of which some measured
\* resource is above its high threshold.
C32_LowNodeUtilizationClasses ==
    (plugin.name = LowNodeUtilizationPluginName /\ ClassifiedOnly) =>
        /\ NamesIn(lowNodes) = {n \in SchedulableNames : MeasuredLow(n)}
        /\ NamesIn(highNodes) = {n \in NamesOfNodes : MeasuredHigh(n)}
        /\ Cardinality(NamesIn(lowNodes)) = Len(lowNodes)
        /\ Cardinality(NamesIn(highNodes)) = Len(highNodes)

\* LowNodeUtilization classified a node as underutilized of which some
\* resource is at its low threshold, left out a node that is as little used
\* but unschedulable, and classified an unschedulable node as overutilized.
C32_Witness ==
    /\ plugin.name = LowNodeUtilizationPluginName /\ ClassifiedOnly
    /\ \E i \in DOMAIN lowNodes : \E r \in DOMAIN UsageOf(lowNodes[i]) :
           UsageOf(lowNodes[i])[r] = lowNodes[i].thresholds.Low[r]
    /\ \E n \in NamesOfNodes \ SchedulableNames :
           MeasuredLow(n) /\ n \notin NamesIn(lowNodes)
    /\ \E n \in NamesOfNodes \ SchedulableNames : n \in NamesIn(highNodes)

\* C33: in HighNodeUtilization lowNodes holds, once each, the nodes,
\* schedulable or not, of which no measured resource is above its low
\* threshold, and highNodes holds, once each, the schedulable nodes that are
\* not low in that sense: each of the two classifiers has seen every node.
C33_HighNodeUtilizationClasses ==
    (plugin.name = HighNodeUtilizationPluginName /\ ClassifiedOnly) =>
        /\ NamesIn(lowNodes) = {n \in NamesOfNodes : MeasuredLow(n)}
        /\ NamesIn(highNodes) = {n \in SchedulableNames : ~MeasuredLow(n)}
        /\ Cardinality(NamesIn(lowNodes)) = Len(lowNodes)
        /\ Cardinality(NamesIn(highNodes)) = Len(highNodes)

\* HighNodeUtilization classified an unschedulable node as underutilized and a
\* node of which some resource is at its low threshold too, and classified a
\* schedulable node as a destination.
C33_Witness ==
    /\ plugin.name = HighNodeUtilizationPluginName /\ ClassifiedOnly
    /\ \E n \in NamesOfNodes \ SchedulableNames : n \in NamesIn(lowNodes)
    /\ \E i \in DOMAIN lowNodes : \E r \in DOMAIN UsageOf(lowNodes[i]) :
           UsageOf(lowNodes[i])[r] = lowNodes[i].thresholds.Low[r]
    /\ highNodes # <<>>

\* capacity * percent / 100 of a capacity and a percentage n/d that is not
\* negative, truncated to a whole unit.
PercentOfCapacity(capacity, percent) == (capacity * percent.n) \div (100 * percent.d)

\* The capacity of the resource r of the node of the call of thresholdsForNode.
CapacityOfCall(r) == Get(NodeCapacity(tArgs.client, tArgs.node), r)

\* C34: without deviation thresholds the low threshold of a node is, for
\* every resource in scope, the capacity times the percentage of Thresholds
\* over 100, truncated to a whole unit (a milli-cpu for cpu), and the high
\* threshold is the same of the percentage of TargetThresholds.
C34_AbsoluteThresholds ==
    (tPc = "done" /\ ~tArgs.processor.useDeviationThresholds) =>
        \A r \in tArgs.processor.resourceNames :
            /\ tThresholds.Low[r] =
                   PercentOfCapacity(CapacityOfCall(r), Pct(tArgs.processor.lowThreshold[r]))
            /\ tThresholds.High[r] =
                   PercentOfCapacity(CapacityOfCall(r), Pct(tArgs.processor.highThreshold[r]))

\* A percentage kept within 0 and 100.
Clamp(percent) ==
    IF PctLess(percent, Pct(0)) THEN Pct(0)
    ELSE IF PctLess(Pct(100), percent) THEN Pct(100)
    ELSE percent

\* C35: with deviation thresholds, for every resource in scope, the low and
\* the high threshold of a node are its full capacity when the low percentage
\* of the resource is 0, and otherwise the capacity times the average less the
\* low percentage, kept within 0 and 100, over 100, and the capacity times the
\* average plus the high percentage, kept within 0 and 100, over 100.
C35_DeviationThresholds ==
    (tPc = "done" /\ tArgs.processor.useDeviationThresholds) =>
        \A r \in tArgs.processor.resourceNames :
            IF tArgs.processor.lowThreshold[r] = 0
              THEN /\ tThresholds.Low[r] = CapacityOfCall(r)
                   /\ tThresholds.High[r] = CapacityOfCall(r)
              ELSE /\ tThresholds.Low[r] =
                          PercentOfCapacity(CapacityOfCall(r),
                              Clamp(PctSub(tArgs.average[r],
                                           Pct(tArgs.processor.lowThreshold[r]))))
                   /\ tThresholds.High[r] =
                          PercentOfCapacity(CapacityOfCall(r),
                              Clamp(PctAdd(tArgs.average[r],
                                           Pct(tArgs.processor.highThreshold[r]))))

\* The sum of a sequence of percentages.
RECURSIVE SumPct(_)
SumPct(percents) ==
    IF percents = <<>> THEN Pct(0) ELSE PctAdd(Head(percents), SumPct(Tail(percents)))

\* The mean over the nodes of a call of NodesAverageUsage of the usage of the
\* resource r over the capacity NodeCapacity of the client reports, times 100.
MeanOfNodeCapacity(r) ==
    LET usage(i) == uArgs.nodeUtilization[uArgs.nodes[i].Name]
        total == SumPct([i \in DOMAIN uArgs.nodes |->
                     IF r \in DOMAIN usage(i)
                       THEN PctReduce(usage(i)[r] * 100,
                                      NodeCapacity(uArgs.client, uArgs.nodes[i])[r])
                       ELSE Pct(0)])
    IN PctReduce(total.n, total.d * Len(uArgs.nodes))

\* C36: of every usage client, NodesAverageUsage is, for every resource of
\* the usage of the nodes, the mean over the nodes of the usage over the
\* capacity that NodeCapacity of the client reports, times 100: of the
\* prometheus client, the mean of the values recorded for MetricResource
\* against the capacity 100.
C36_AverageUsesNodeCapacity ==
    (uPc = "done") =>
        /\ DOMAIN uAverage =
               UNION {DOMAIN uArgs.nodeUtilization[n] : n \in DOMAIN uArgs.nodeUtilization}
        /\ \A r \in DOMAIN uAverage : uAverage[r] = MeanOfNodeCapacity(r)

\* C37: after the classification no node is both in lowNodes and in
\* highNodes, in HighNodeUtilization and, whatever percentages between 0 and
\* 100 are configured, in LowNodeUtilization.
C37_ClassesDisjoint ==
    Classified => NamesIn(lowNodes) \cap NamesIn(highNodes) = {}

\* C38: an eviction that succeeded, of a pod of which PodUsage returned the
\* usage, reads no missing entry when it is accounted for: the usage of the
\* pod has every resource of the headroom but pods, so that the step does not
\* end in a nil pointer dereference, and the usage of the source node has
\* every resource of the headroom.
C38_AccountingReadsNoMissingEntry ==
    [][EvictedWithUsage =>
          /\ pc' # "panic"
          /\ DOMAIN totalAvailableUsage \subseteq DOMAIN UsageOf(CurrentNode)]_vars

\* The removable pods of the source nodes, each as its node and its name.
RemovablePodsOfSources ==
    UNION {{<<SourceNodes[i].Node.Name, pod.Name>> :
                pod \in Range(classifyPods(AllPodsOf(SourceNodes[i])))} :
           i \in DOMAIN SourceNodes}

\* The most pods the cluster lists for one node.
MostPodsOfNode ==
    CHOOSE m \in {Len(apiPods[n]) : n \in DOMAIN apiPods} :
        \A n \in DOMAIN apiPods : Len(apiPods[n]) <= m

\* A bound on the steps the pass has left: per source node not yet taken one
\* step for each of its pods and two more, and the pods left of the list of
\* the source node at hand.
StepsLeft ==
    LET perNode == MostPodsOfNode + 2
    IN CASE pc = "sync" -> Len(nodes) * perNode + 4
         [] pc = "classify" -> Len(nodes) * perNode + 3
         [] pc = "headroom" -> Len(nodes) * perNode + 2
         [] pc = "nodes" -> (Len(SourceNodes) - srcIdx) * perNode + 1
         [] pc = "pods" -> (Len(SourceNodes) - srcIdx) * perNode + 2
                               + (Len(inputPods) - podIdx)
         [] OTHER -> 0

\* C39: whatever Evict returns, no pod is passed to Evict twice in a pass, the
\* source nodes are taken one after the other in their order and none twice,
\* the calls of Evict are at most as many as the removable pods of the source
\* nodes, and every step of the pass lowers a bound on the steps that are
\* left, which is never below zero: the pass terminates.
C39_PassTerminates ==
    [][/\ \A i, j \in DOMAIN evictCalls' :
             (evictCalls'[i].node = evictCalls'[j].node
                 /\ evictCalls'[i].pod = evictCalls'[j].pod) => i = j
       /\ \A i, j \in DOMAIN evictCalls' :
             i < j => SourceIndex(evictCalls'[i].node) <= SourceIndex(evictCalls'[j].node)
       /\ (srcIdx' = srcIdx \/ srcIdx' = srcIdx + 1) /\ srcIdx' <= Len(SourceNodes')
       /\ evictCalls' # <<>> => Len(evictCalls') <= Cardinality(RemovablePodsOfSources)
       /\ StepsLeft' < StepsLeft /\ StepsLeft' >= 0]_vars

\* A pass ended after it took two source nodes and called Evict three times,
\* of which one call failed and one succeeded.
C39_Witness ==
    /\ pc = "done" /\ srcIdx >= 2 /\ Len(evictCalls) >= 3
    /\ \E i \in DOMAIN evictCalls : evictCalls[i].err = "error"
    /\ \E i \in DOMAIN evictCalls : evictCalls[i].err = "nil"
    /\ \E i, j \in DOMAIN evictCalls : evictCalls[i].node # evictCalls[j].node

\* The step is a call of Evict that returned no error.
Evicted ==
    /\ pc = "pods"
    /\ Len(evictCalls') = Len(evictCalls) + 1
    /\ evictCalls'[Len(evictCalls')].err = "nil"

\* C40: an eviction that succeeded leaves the thresholds of every classified
\* node, the usage of every node but the source node the loop is at, and the
\* lists of pods as they were; and so does every other step of the loop over
\* the source nodes and their pods.  What it may change is the usage of that
\* source node and the headroom.
C40_EvictionFrame ==
    [][(Evicted \/ pc = "nodes" \/ pc = "pods") =>
          /\ lowNodes' = lowNodes /\ highNodes' = highNodes
          /\ DOMAIN usageClient'.nodeUtilization = DOMAIN usageClient.nodeUtilization
          /\ \A n \in DOMAIN usageClient.nodeUtilization :
                \/ usageClient'.nodeUtilization[n] = usageClient.nodeUtilization[n]
                \/ Evicted /\ n = SourceNodes[srcIdx].Node.Name
          /\ usageClient'.pods = usageClient.pods
          /\ apiPods' = apiPods /\ nodes' = nodes
          /\ Evicted => inputPods' = inputPods]_vars

\* An eviction of a pod of the second source node succeeded and was accounted
\* for: the usage of that node is less than when Evict was called.
C40_Witness ==
    /\ lastStep = "evicted" /\ srcIdx = 2 /\ evictCalls # <<>>
    /\ LET call == evictCalls[Len(evictCalls)]
       IN /\ call.err = "nil"
          /\ call.node = SourceNodes[2].Node.Name
          /\ usageClient.nodeUtilization[call.node] # call.usage
    /\ DestinationNodes # <<>>

=============================================================================
